---- MODULE Spec2Model ----
(***************************************************************************)
(* Model of the woDynamicForm Lightning web component                      *)
(* (force-app/main/default/lwc/woDynamicForm/woDynamicForm.js), of its     *)
(* review panel and of the tree view.                                      *)
(*                                                                         *)
(* The source file holds two definitions of the class WoDynamicForm:       *)
(*   definition 1 (lines 32-266): schema build + criteria engine,          *)
(*   definition 2 (lines 303-636): schema build + review panel.            *)
(* The variable ver says which definition a behaviour runs.                *)
(*                                                                         *)
(* JavaScript strings are sequences of one-character strings, so that      *)
(* trim, toLowerCase, the criteria regular expression and Number() are     *)
(* computed, not assumed.  Other JavaScript values are tagged records.     *)
(*                                                                         *)
(* The variable call holds the last application of a pure function, for    *)
(* the specifications that exercise one function on its own.               *)
(*                                                                         *)
(* Spec is the component with its handlers; SpecEval applies               *)
(* evaluateCriteria to rules of every operator; SpecBuild runs the schema  *)
(* build of both definitions on record lists chosen for types, ordering    *)
(* and duplicate sections; SpecReview composes definition 2 with the       *)
(* review panel (reviewForm/reviewForm.js); SpecTree is the tree view      *)
(* (fsc_treeView/fsc_treeView.js) with its three wire adapters, and        *)
(* SpecBuildTree applies its buildTree to sequences of calls.              *)
(***************************************************************************)
EXTENDS Integers, Sequences, FiniteSets

VARIABLES ver, sections, loading, schemaError, microtasks, event,
          showReview, reviewPayload, showKeepEmoji, inputs, call,
          reviewForm, treeView, wires

\* the review panel state of definition 2 (lines 312-315) and the input
\* elements of its template
reviewVars ==
  <<showReview, reviewPayload, showKeepEmoji, inputs>>

\* the tree view component (fsc_treeView.js) and the results of its three
\* wire adapters
treeVars ==
  <<treeView, wires>>

vars ==
  <<ver, sections, loading, schemaError, microtasks, event, reviewVars, call,
    reviewForm, treeVars>>

(***************************************************************************)
(* JavaScript values                                                       *)
(***************************************************************************)
JsVal(t, s, n, b) ==
  [t |-> t, s |-> s, n |-> n, b |-> b]

Undef ==
  JsVal("undefined", <<>>, 0, FALSE)

Null ==
  JsVal("null", <<>>, 0, FALSE)

Str(s) ==
  JsVal("str", s, 0, FALSE)

Num(n) ==
  JsVal("num", <<>>, n, FALSE)

Bool(b) ==
  JsVal("bool", <<>>, 0, b)

NaN ==
  JsVal("nan", <<>>, 0, FALSE)

PosInf ==
  JsVal("inf", <<>>, 0, FALSE)

NegInf ==
  JsVal("ninf", <<>>, 0, FALSE)

IsNullish(v) ==
  v.t \in {"undefined", "null"}

\* ToBoolean: the truthiness used by ||, ! and if
Truthy(v) ==
  CASE v.t \in {"undefined", "null", "nan"} -> FALSE
    [] v.t = "str" -> v.s # <<>>
    [] v.t = "num" -> v.n # 0
    [] v.t = "bool" -> v.b
    [] OTHER -> TRUE

\* a || b
JsOr(a, b) ==
  IF Truthy(a) THEN a ELSE b

\* a ?? b
JsCoalesce(a, b) ==
  IF IsNullish(a) THEN b ELSE a

(***************************************************************************)
(* Characters and strings                                                  *)
(***************************************************************************)
\* the characters \s matches and String.prototype.trim strips
WhiteSpace ==
  {" ", "\t", "\n", "\r"}

\* the characters the regular expression's . does not match
LineTerminators ==
  {"\n", "\r"}

UpperCase ==
  <<"A","B","C","D","E","F","G","H","I","J","K","L","M",
    "N","O","P","Q","R","S","T","U","V","W","X","Y","Z">>

LowerCase ==
  <<"a","b","c","d","e","f","g","h","i","j","k","l","m",
    "n","o","p","q","r","s","t","u","v","w","x","y","z">>

Digits ==
  <<"0","1","2","3","4","5","6","7","8","9">>

LowerChar(c) ==
  IF \E i \in 1..26 : UpperCase[i] = c
  THEN LowerCase[CHOOSE i \in 1..26 : UpperCase[i] = c]
  ELSE c

\* String.prototype.toLowerCase
toLowerCase(s) ==
  [i \in 1..Len(s) |-> LowerChar(s[i])]

\* index of the first character at or after i that is not in set cs
\* (Len(s)+1 when there is none)
SkipWhile(s, i, cs) ==
  CHOOSE j \in i..(Len(s) + 1) :
    /\ \A k \in i..(j - 1) : s[k] \in cs
    /\ (j = Len(s) + 1 \/ s[j] \notin cs)

\* index of the last character that is not white space (0 when none)
LastNonSpace(s) ==
  CHOOSE j \in 0..Len(s) :
    /\ \A k \in (j + 1)..Len(s) : s[k] \in WhiteSpace
    /\ (j = 0 \/ s[j] \notin WhiteSpace)

\* String.prototype.trim
trim(s) ==
  SubSeq(s, SkipWhile(s, 1, WhiteSpace), LastNonSpace(s))

\* index of the first occurrence of character c at or after i (0 when none)
IndexOfChar(s, c, i) ==
  IF \E j \in i..Len(s) : s[j] = c
  THEN CHOOSE j \in i..Len(s) : s[j] = c /\ \A k \in i..(j - 1) : s[k] # c
  ELSE 0

DigitValue(c) ==
  (CHOOSE i \in 1..10 : Digits[i] = c) - 1

IsDigit(c) ==
  \E i \in 1..10 : Digits[i] = c

RECURSIVE DigitsToNat(_)
DigitsToNat(s) ==
  IF s = <<>> THEN 0
  ELSE 10 * DigitsToNat(SubSeq(s, 1, Len(s) - 1)) + DigitValue(s[Len(s)])

RECURSIVE NatToDigits(_)
NatToDigits(n) ==
  IF n < 10 THEN <<Digits[n + 1]>>
  ELSE NatToDigits(n \div 10) \o <<Digits[(n % 10) + 1]>>

\* StringToNumber on the literals the model's pools hold: white space is
\* trimmed, the empty string is 0, an optionally signed run of decimal
\* digits is that integer, anything else is NaN.
StringToNumber(s) ==
  LET t == trim(s)
      body == IF t # <<>> /\ t[1] \in {"+", "-"} THEN Tail(t) ELSE t
  IN IF t = <<>> THEN Num(0)
     ELSE IF body # <<>> /\ \A i \in 1..Len(body) : IsDigit(body[i])
     THEN Num(IF t[1] = "-" THEN 0 - DigitsToNat(body) ELSE DigitsToNat(body))
     ELSE NaN

\* Number(v)
JsNumber(v) ==
  CASE v.t = "undefined" -> NaN
    [] v.t = "null" -> Num(0)
    [] v.t = "bool" -> Num(IF v.b THEN 1 ELSE 0)
    [] v.t = "str" -> StringToNumber(v.s)
    [] OTHER -> v

\* String(v)
JsString(v) ==
  CASE v.t = "undefined" -> <<"u","n","d","e","f","i","n","e","d">>
    [] v.t = "null" -> <<"n","u","l","l">>
    [] v.t = "bool" -> IF v.b THEN <<"t","r","u","e">> ELSE <<"f","a","l","s","e">>
    [] v.t = "str" -> v.s
    [] v.t = "num" -> IF v.n < 0 THEN <<"-">> \o NatToDigits(0 - v.n)
                      ELSE NatToDigits(v.n)
    [] v.t = "nan" -> <<"N","a","N">>
    [] v.t = "inf" -> <<"I","n","f","i","n","i","t","y">>
    [] OTHER -> <<"-","I","n","f","i","n","i","t","y">>

\* a < b on numbers (false when either is NaN)
NumLess(a, b) ==
  CASE a.t = "nan" \/ b.t = "nan" -> FALSE
    [] a.t = "num" /\ b.t = "num" -> a.n < b.n
    [] a.t = "ninf" -> b.t # "ninf"
    [] a.t = "inf" -> FALSE
    [] OTHER -> b.t = "inf"

(***************************************************************************)
(* Arrays                                                                  *)
(***************************************************************************)
\* printable ASCII characters in code-unit order (the double quote, the
\* backslash and the grave accent left out: no string of the model has them)
Ascii ==
  <<
    " ", "!", "#", "$", "%", "&", "'", "(", ")", "*", "+",
    ",", "-", ".", "/", "0", "1", "2", "3", "4", "5", "6", "7",
    "8", "9", ":", ";", "<", "=", ">", "?", "@", "A", "B", "C",
    "D", "E", "F", "G", "H", "I", "J", "K", "L", "M", "N", "O",
    "P", "Q", "R", "S", "T", "U", "V", "W", "X", "Y", "Z", "[",
    "]", "^", "_", "a", "b", "c", "d", "e", "f", "g",
    "h", "i", "j", "k", "l", "m", "n", "o", "p", "q", "r", "s",
    "t", "u", "v", "w", "x", "y", "z", "{", "|", "}", "~"
  >>

\* the rank of a character in code-unit order
CharCode(c) ==
  IF \E i \in 1..Len(Ascii) : Ascii[i] = c
  THEN CHOOSE i \in 1..Len(Ascii) : Ascii[i] = c
  ELSE 0

\* a < b on strings: code-unit lexicographic order
RECURSIVE StrLess(_, _)
StrLess(a, b) ==
  IF b = <<>> THEN FALSE
  ELSE IF a = <<>> THEN TRUE
  ELSE IF a[1] = b[1] THEN StrLess(Tail(a), Tail(b))
  ELSE CharCode(a[1]) < CharCode(b[1])

\* Array.prototype.join
RECURSIVE Join(_, _)
Join(strs, sep) ==
  IF strs = <<>> THEN <<>>
  ELSE IF Len(strs) = 1 THEN strs[1]
  ELSE strs[1] \o sep \o Join(Tail(strs), sep)

\* String.prototype.split on a one-character separator
RECURSIVE Split(_, _)
Split(s, c) ==
  LET i == IndexOfChar(s, c, 1)
  IN IF i = 0 THEN <<s>>
     ELSE <<SubSeq(s, 1, i - 1)>> \o Split(SubSeq(s, i + 1, Len(s)), c)

\* Array.prototype.filter
\* (keep is the set of the indices whose element passes the test)
Filter(seq, keep) ==
  [k \in 1..Cardinality(keep) |->
    seq[CHOOSE i \in keep : Cardinality({j \in keep : j < i}) = k - 1]]

\* a - b on numbers
NumSub(a, b) ==
  CASE a.t = "nan" \/ b.t = "nan" -> NaN
    [] a.t = "num" /\ b.t = "num" -> Num(a.n - b.n)
    [] a.t = b.t -> NaN
    [] a.t = "num" -> IF b.t = "inf" THEN NegInf ELSE PosInf
    [] OTHER -> a

\* Math.min(a, b)
MathMin(a, b) ==
  IF a.t = "nan" \/ b.t = "nan" THEN NaN
  ELSE IF NumLess(b, a) THEN b ELSE a

\* the sign Array.prototype.sort takes from a comparator's result
\* (SortCompare: NaN counts as +0)
SortSign(v) ==
  IF NumLess(v, Num(0)) THEN 0 - 1
  ELSE IF NumLess(Num(0), v) THEN 1
  ELSE 0

Permutations(n) ==
  {p \in [1..n -> 1..n] : \A i, j \in 1..n : i # j => p[i] # p[j]}

\* a consistent comparator in the sense of ECMAScript's Array.prototype.sort;
\* cmp[i][j] is the sign of comparefn(seq[i], seq[j]) on an array of n elements
ConsistentComparator(n, cmp) ==
  \A a, b, c \in 1..n :
    /\ cmp[a][a] = 0
    /\ cmp[a][b] = 0 - cmp[b][a]
    /\ (cmp[a][b] = 0 /\ cmp[b][c] = 0) => cmp[a][c] = 0
    /\ (cmp[a][b] < 0 /\ cmp[b][c] < 0) => cmp[a][c] < 0
    /\ (cmp[a][b] > 0 /\ cmp[b][c] > 0) => cmp[a][c] > 0

\* Array.prototype.sort(Cmp): the arrays a conforming engine can leave.
\* With a consistent comparator the sort is stable and its result unique;
\* otherwise the order is implementation-defined: any permutation.
SortOutcomes(seq, cmp) ==
  LET n == Len(seq)
      Sorted(p) ==
        \A i, j \in 1..n :
          i < j => \/ cmp[p[i]][p[j]] < 0
                   \/ (cmp[p[i]][p[j]] = 0 /\ p[i] < p[j])
  IN {[i \in 1..n |-> seq[p[i]]] :
        p \in {r \in Permutations(n) :
                 ConsistentComparator(n, cmp) => Sorted(r)}}

(***************************************************************************)
(* The criteria regular expression                                         *)
(***************************************************************************)
\* CRITERIA_REGEX = /^\s*\[([^\]]+)\]\.\[([^\]]+)\]\s*\{\s*([!<>=]*)(.*?)\s*\}\s*$/
\* Every quantifier but the last group's is greedy over a character class
\* that excludes the character following it, so the match is unique: the
\* closing brace is the last character that is not white space, and the lazy
\* group takes what lies before it less its trailing white space.
OperatorChars ==
  {"!", "<", ">", "="}

NoMatch ==
  [ok |-> FALSE, sectionName |-> <<>>, fieldName |-> <<>>,
   operator |-> <<>>, expected |-> <<>>]

CharAt(s, i) ==
  IF i \in 1..Len(s) THEN s[i] ELSE ""

\* criteria.match(CRITERIA_REGEX): ok and the four capture groups
CRITERIA_REGEX(s) ==
  LET open1  == SkipWhile(s, 1, WhiteSpace)
      close1 == IndexOfChar(s, "]", open1 + 1)
      open2  == close1 + 2
      close2 == IndexOfChar(s, "]", open2 + 1)
      brace  == SkipWhile(s, close2 + 1, WhiteSpace)
      opFrom == SkipWhile(s, brace + 1, WhiteSpace)
      opTo   == SkipWhile(s, opFrom, OperatorChars)
      last   == LastNonSpace(s)
      raw    == SubSeq(s, opTo, last - 1)
      exp    == SubSeq(raw, 1, LastNonSpace(raw))
  IN IF /\ CharAt(s, open1) = "["
        /\ close1 > open1 + 1
        /\ CharAt(s, close1 + 1) = "."
        /\ CharAt(s, open2) = "["
        /\ close2 > open2 + 1
        /\ CharAt(s, brace) = "{"
        /\ last > brace
        /\ CharAt(s, last) = "}"
        /\ \A i \in 1..Len(exp) : exp[i] \notin LineTerminators
     THEN [ok |-> TRUE,
           sectionName |-> SubSeq(s, open1 + 1, close1 - 1),
           fieldName |-> SubSeq(s, open2 + 1, close2 - 1),
           operator |-> SubSeq(s, opFrom, opTo - 1),
           expected |-> exp]
     ELSE NoMatch

(***************************************************************************)
(* Definition 1: the visibility engine                                     *)
(***************************************************************************)
\* Array.prototype.find: the least of the indices hits, those of the
\* elements that pass the test (0 when there is none)
FindIndex(hits) ==
  IF hits = {} THEN 0 ELSE CHOOSE i \in hits : \A k \in hits : i <= k

\* mutant of normalizeCriteria: the trim is forgotten
normalizeCriteria_NoTrim(raw) ==
  IF IsNullish(raw) THEN <<>> ELSE JsString(raw)

\* normalizeCriteria(raw); raw is a JavaScript value, the result a string
normalizeCriteria(raw) ==
  IF IsNullish(raw) THEN <<>> ELSE trim(JsString(raw))

NumericOperators ==
  {<<">">>, <<"<">>, <<">", "=">>, <<"<", "=">>}

\* mutant of ActualValue: the field is looked up in every section
ActualValue_AnySection(secs, m) ==
  LET hits == {i \in 1..Len(secs) :
                 \E j \in 1..Len(secs[i].fields) :
                   secs[i].fields[j].fieldApiName = Str(m.fieldName)}
      si == CHOOSE i \in hits : \A k \in hits : i <= k
      fi == FindIndex({j \in 1..Len(secs[si].fields) :
                         secs[si].fields[j].fieldApiName = Str(m.fieldName)})
  IN IF hits = {} THEN Undef ELSE secs[si].fields[fi].value

\* the value evaluateCriteria reads for a matched rule m:
\* this.sections.find(..)?.fields.find(..)?.value
ActualValue(secs, m) ==
  LET si == FindIndex({i \in 1..Len(secs) : secs[i].name = Str(m.sectionName)})
      fi == IF si = 0 THEN 0
            ELSE FindIndex({j \in 1..Len(secs[si].fields) :
                              secs[si].fields[j].fieldApiName = Str(m.fieldName)})
  IN IF si = 0 \/ fi = 0 THEN Undef ELSE secs[si].fields[fi].value

\* mutant of evaluateCriteria: the null check of lines 235-239 is missing
evaluateCriteria_NoNullCheck(secs, criteria) ==
  LET m == CRITERIA_REGEX(criteria)
      actual == ActualValue(secs, m)
      a == JsNumber(actual)
      e == JsNumber(Str(m.expected))
  IN IF ~m.ok THEN FALSE
     ELSE IF m.operator \in NumericOperators
     THEN IF a.t = "nan" \/ e.t = "nan" THEN FALSE
          ELSE CASE m.operator = <<">">> -> NumLess(e, a)
                 [] m.operator = <<">", "=">> -> ~NumLess(a, e)
                 [] m.operator = <<"<">> -> NumLess(a, e)
                 [] OTHER -> ~NumLess(e, a)
     ELSE toLowerCase(JsString(actual)) = toLowerCase(m.expected)

\* mutant of evaluateCriteria: a string the regular expression rejects
\* counts as a satisfied rule
evaluateCriteria_NoMatchTrue(secs, criteria) ==
  LET m == CRITERIA_REGEX(criteria)
      actual == ActualValue(secs, m)
      a == JsNumber(actual)
      e == JsNumber(Str(m.expected))
  IN IF ~m.ok THEN TRUE
     ELSE IF IsNullish(actual) THEN FALSE
     ELSE IF m.operator \in NumericOperators
     THEN IF a.t = "nan" \/ e.t = "nan" THEN FALSE
          ELSE CASE m.operator = <<">">> -> NumLess(e, a)
                 [] m.operator = <<">", "=">> -> ~NumLess(a, e)
                 [] m.operator = <<"<">> -> NumLess(a, e)
                 [] OTHER -> ~NumLess(e, a)
     ELSE toLowerCase(JsString(actual)) = toLowerCase(m.expected)

\* mutant of evaluateCriteria: the strings are compared as they are
evaluateCriteria_CaseSensitive(secs, criteria) ==
  LET m == CRITERIA_REGEX(criteria)
      actual == ActualValue(secs, m)
      a == JsNumber(actual)
      e == JsNumber(Str(m.expected))
  IN IF ~m.ok THEN FALSE
     ELSE IF IsNullish(actual) THEN FALSE
     ELSE IF m.operator \in NumericOperators
     THEN IF a.t = "nan" \/ e.t = "nan" THEN FALSE
          ELSE CASE m.operator = <<">">> -> NumLess(e, a)
                 [] m.operator = <<">", "=">> -> ~NumLess(a, e)
                 [] m.operator = <<"<">> -> NumLess(a, e)
                 [] OTHER -> ~NumLess(e, a)
     ELSE JsString(actual) = m.expected

\* evaluateCriteria(criteria) against this.sections = secs
evaluateCriteria(secs, criteria) ==
  LET m == CRITERIA_REGEX(criteria)
      actual == ActualValue(secs, m)
      a == JsNumber(actual)
      e == JsNumber(Str(m.expected))
  IN IF ~m.ok THEN FALSE
     ELSE IF IsNullish(actual) THEN FALSE
     ELSE IF m.operator \in NumericOperators
     THEN IF a.t = "nan" \/ e.t = "nan" THEN FALSE
          ELSE CASE m.operator = <<">">> -> NumLess(e, a)
                 [] m.operator = <<">", "=">> -> ~NumLess(a, e)
                 [] m.operator = <<"<">> -> NumLess(a, e)
                 [] OTHER -> ~NumLess(e, a)
     ELSE toLowerCase(JsString(actual)) = toLowerCase(m.expected)

\* the template literal ${sec.name}-${sectionVisible}
RenderKey(sec, sectionVisible) ==
  Str(JsString(sec.name) \o <<"-">> \o JsString(Bool(sectionVisible)))

\* mutant of reEvaluateVisibility: a field is shown on its own rule alone
reEvaluateVisibility_IgnoreSection(secs) ==
  [i \in 1..Len(secs) |->
    LET sec == secs[i]
        normalizedSectionCriteria == normalizeCriteria(sec.sectionCriteria)
        sectionVisible ==
          IF normalizedSectionCriteria # <<>>
          THEN evaluateCriteria(secs, normalizedSectionCriteria)
          ELSE TRUE
        fields ==
          [j \in 1..Len(sec.fields) |->
            LET f == sec.fields[j]
                normalizedFieldCriteria == normalizeCriteria(f.fieldCriteria)
                fieldVisible ==
                  normalizedFieldCriteria = <<>>
                  \/ evaluateCriteria(secs, normalizedFieldCriteria)
            IN [f EXCEPT !.isVisible = fieldVisible]]
    IN [sec EXCEPT !.isVisible = sectionVisible,
                   !.renderKey = RenderKey(sec, sectionVisible),
                   !.fields = fields]]

\* mutant of reEvaluateVisibility: the fields follow the section flag of
\* the previous pass (sec.isVisible) instead of sectionVisible
reEvaluateVisibility_StaleSection(secs) ==
  [i \in 1..Len(secs) |->
    LET sec == secs[i]
        normalizedSectionCriteria == normalizeCriteria(sec.sectionCriteria)
        sectionVisible ==
          IF normalizedSectionCriteria # <<>>
          THEN evaluateCriteria(secs, normalizedSectionCriteria)
          ELSE TRUE
        fields ==
          [j \in 1..Len(sec.fields) |->
            LET f == sec.fields[j]
                normalizedFieldCriteria == normalizeCriteria(f.fieldCriteria)
                fieldVisible ==
                  IF sec.isVisible
                  THEN normalizedFieldCriteria = <<>>
                       \/ evaluateCriteria(secs, normalizedFieldCriteria)
                  ELSE FALSE
            IN [f EXCEPT !.isVisible = fieldVisible]]
    IN [sec EXCEPT !.isVisible = sectionVisible,
                   !.renderKey = RenderKey(sec, sectionVisible),
                   !.fields = fields]]

\* reEvaluateVisibility(): the new value of this.sections, from secs
reEvaluateVisibility(secs) ==
  [i \in 1..Len(secs) |->
    LET sec == secs[i]
        normalizedSectionCriteria == normalizeCriteria(sec.sectionCriteria)
        sectionVisible ==
          IF normalizedSectionCriteria # <<>>
          THEN evaluateCriteria(secs, normalizedSectionCriteria)
          ELSE TRUE
        fields ==
          [j \in 1..Len(sec.fields) |->
            LET f == sec.fields[j]
                normalizedFieldCriteria == normalizeCriteria(f.fieldCriteria)
                fieldVisible ==
                  IF sectionVisible
                  THEN normalizedFieldCriteria = <<>>
                       \/ evaluateCriteria(secs, normalizedFieldCriteria)
                  ELSE FALSE
            IN [f EXCEPT !.isVisible = fieldVisible]]
    IN [sec EXCEPT !.isVisible = sectionVisible,
                   !.renderKey = RenderKey(sec, sectionVisible),
                   !.fields = fields]]

(***************************************************************************)
(* Schema build, shared by the two definitions                             *)
(***************************************************************************)
Other ==
  <<"O", "t", "h", "e", "r">>

\* the type tags the classifier knows
TypeText ==
  {<<"t", "e", "x", "t">>, <<"s", "t", "r", "i", "n", "g">>}

TypeTextArea ==
  {<<"t", "e", "x", "t", "a", "r", "e", "a">>, <<"l", "o", "n", "g", "t", "e", "x", "t">>}

TypeNumber ==
  {<<"n", "u", "m", "b", "e", "r">>, <<"d", "o", "u", "b", "l", "e">>, <<"c", "u", "r", "r", "e", "n", "c", "y">>, <<"p", "e", "r", "c", "e", "n", "t">>}

TypeDate ==
  <<"d", "a", "t", "e">>

TypeDateTime ==
  <<"d", "a", "t", "e", "t", "i", "m", "e">>

TypeCheckbox ==
  {<<"c", "h", "e", "c", "k", "b", "o", "x">>, <<"b", "o", "o", "l", "e", "a", "n">>}

TypePicklist ==
  <<"p", "i", "c", "k", "l", "i", "s", "t">>

\* (node.Asset_Type__c?.value || '').toLowerCase()
TypeRaw(node) ==
  toLowerCase(JsString(JsOr(node.Asset_Type__c, Str(<<>>))))

\* the message of the TypeError definition 1 raises on an edge without node
NoNodeMessage ==
  Str(<<"C", "a", "n", "n", "o", "t", " ", "r", "e", "a", "d", " ", "p", "r", "o", "p", "e", "r", "t", "i", "e", "s", " ", "o", "f", " ", "u", "n", "d", "e", "f", "i", "n", "e", "d", " ", "(", "r", "e", "a", "d", "i", "n", "g", " ", "'", "S", "e", "c", "t", "i", "o", "n", "_", "_", "c", "'", ")">>)

(***************************************************************************)
(* Definition 1: wiredForm, lines 43-115                                   *)
(***************************************************************************)
\* lines 83-87: the picklist options of definition 1
ComboboxOptions1(node, isPicklist) ==
  IF isPicklist
  THEN LET parts == Split(JsString(JsOr(node.Picklist_Values__c, Str(<<>>))), ",")
       IN [i \in 1..Len(parts) |->
            [label |-> Str(trim(parts[i])), value |-> Str(trim(parts[i]))]]
  ELSE <<>>

\* lines 66-88: the field pushed for one node
FieldDef1(node) ==
  LET type == TypeRaw(node)
      isPicklist == type = TypePicklist
  IN [fieldApiName |-> node.Asset_Attribute__c,
      fieldOrder |-> JsNumber(JsCoalesce(node.Field_Order__c, Num(9999))),
      fieldCriteria |-> JsOr(node.Field_Criteria__c, Str(<<>>)),
      value |-> Null,
      isText |-> type \in TypeText,
      isTextArea |-> type \in TypeTextArea,
      isNumber |-> type \in TypeNumber,
      isDate |-> type = TypeDate,
      isDateTime |-> type = TypeDateTime,
      isCheckbox |-> type \in TypeCheckbox,
      isPicklist |-> isPicklist,
      comboboxOptions |-> ComboboxOptions1(node, isPicklist),
      isVisible |-> TRUE]

\* lines 54-89: edges.forEach, grouped being the Map's values in insertion
\* order (isVisible and renderKey hold what lines 95-96 leave)
RECURSIVE Grouped1(_, _)
Grouped1(edges, grouped) ==
  IF edges = <<>> THEN grouped
  ELSE LET node == Head(edges).node
           sectionName == JsOr(node.Section__c, Str(Other))
           at == FindIndex({i \in 1..Len(grouped) : grouped[i].name = sectionName})
           created ==
             [name |-> sectionName,
              sectionOrder |-> JsNumber(JsCoalesce(node.Section_Order__c, Num(9999))),
              sectionCriteria |-> JsOr(node.Section_Criteria__c, Str(<<>>)),
              fields |-> <<>>,
              isVisible |-> TRUE,
              renderKey |-> Undef]
           next == IF at = 0 THEN Append(grouped, created) ELSE grouped
           idx == IF at = 0 THEN Len(next) ELSE at
       IN Grouped1(Tail(edges),
                   [next EXCEPT ![idx].fields = Append(@, FieldDef1(node))])

\* line 94: (a, b) => a.fieldOrder - b.fieldOrder
FieldCompare1(a, b) ==
  SortSign(NumSub(a.fieldOrder, b.fieldOrder))

\* line 99: (a, b) => a.sectionOrder - b.sectionOrder
SectionCompare1(a, b) ==
  SortSign(NumSub(a.sectionOrder, b.sectionOrder))

\* the signs of a comparator on every pair of elements of seq
FieldSigns1(seq) ==
  [i \in 1..Len(seq) |-> [j \in 1..Len(seq) |-> FieldCompare1(seq[i], seq[j])]]

SectionSigns1(seq) ==
  [i \in 1..Len(seq) |-> [j \in 1..Len(seq) |-> SectionCompare1(seq[i], seq[j])]]

\* lines 93-97: every way the field sorts can come out, section by section
RECURSIVE FieldSorts1(_)
FieldSorts1(grouped) ==
  IF grouped = <<>> THEN {<<>>}
  ELSE {<<[Head(grouped) EXCEPT !.fields = fs]>> \o rest :
          fs \in SortOutcomes(Head(grouped).fields,
                              FieldSigns1(Head(grouped).fields)),
          rest \in FieldSorts1(Tail(grouped))}

\* lines 51-101: the schemas the build can assign to this.sections
Build1(edges) ==
  UNION {SortOutcomes(list, SectionSigns1(list)) :
           list \in FieldSorts1(Grouped1(edges, <<>>))}

(***************************************************************************)
(* Definition 2: wiredForm, lines 320-447                                  *)
(***************************************************************************)
\* lines 374-382: the picklist options of definition 2
ComboboxOptions2(node, isPicklist) ==
  IF isPicklist
  THEN LET parts == Split(JsString(JsOr(node.Picklist_Values__c, Str(<<>>))), ",")
           trimmed == [i \in 1..Len(parts) |-> trim(parts[i])]
           kept == Filter(trimmed, {i \in 1..Len(trimmed) : Len(trimmed[i]) # 0})
       IN [i \in 1..Len(kept) |->
            [label |-> Str(kept[i]), value |-> Str(kept[i])]]
  ELSE <<>>

\* lines 352-401: the field pushed for one node
FieldDef2(node, sectionName) ==
  LET typeRaw == TypeRaw(node)
      fieldOrder == JsNumber(JsCoalesce(node.Field_Order__c, PosInf))
      isText == typeRaw \in TypeText
      isTextArea == typeRaw \in TypeTextArea
      isNumber == typeRaw \in TypeNumber
      isDate == typeRaw = TypeDate
      isDateTime == typeRaw = TypeDateTime
      isCheckbox == typeRaw \in TypeCheckbox
      isPicklist == typeRaw = TypePicklist
  IN [section |-> sectionName,
      fieldApiName |-> node.Asset_Attribute__c,
      fieldType |-> Str(typeRaw),
      comboboxOptions |-> ComboboxOptions2(node, isPicklist),
      isText |-> isText,
      isTextArea |-> isTextArea,
      isNumber |-> isNumber,
      isDate |-> isDate,
      isDateTime |-> isDateTime,
      isCheckbox |-> isCheckbox,
      isPicklist |-> isPicklist,
      isOther |-> ~isText /\ ~isTextArea /\ ~isNumber /\ ~isDate
                  /\ ~isDateTime /\ ~isCheckbox /\ ~isPicklist,
      value |-> Null,
      fieldOrder |-> IF fieldOrder.t = "nan" THEN PosInf ELSE fieldOrder]

\* lines 337-404: edges.forEach, grouped being the Map's entries in
\* insertion order
RECURSIVE Grouped2(_, _)
Grouped2(edges, grouped) ==
  IF edges = <<>> THEN grouped
  ELSE IF ~Head(edges).hasNode THEN Grouped2(Tail(edges), grouped)
  ELSE LET node == Head(edges).node
           sectionName == JsOr(node.Section__c, Str(Other))
           sectionOrder == JsNumber(JsCoalesce(node.Section_Order__c, PosInf))
           at == FindIndex({i \in 1..Len(grouped) : grouped[i].name = sectionName})
           next ==
             IF at = 0
             THEN Append(grouped,
                         [name |-> sectionName, order |-> sectionOrder,
                          fields |-> <<>>])
             ELSE [grouped EXCEPT ![at].order =
                     MathMin(JsCoalesce(@, PosInf), sectionOrder)]
           idx == IF at = 0 THEN Len(next) ELSE at
       IN Grouped2(Tail(edges),
                   [next EXCEPT ![idx].fields =
                      Append(@, FieldDef2(node, sectionName))])

\* lines 411-416 and 430-435: the tie-break on lower-cased names
NameCompare(an, bn) ==
  IF StrLess(an, bn) THEN 0 - 1
  ELSE IF StrLess(bn, an) THEN 1
  ELSE 0

\* lines 408-417: the field comparator
FieldCompare2(a, b) ==
  LET ao == JsCoalesce(a.fieldOrder, PosInf)
      bo == JsCoalesce(b.fieldOrder, PosInf)
  IN IF ao # bo THEN SortSign(NumSub(ao, bo))
     ELSE NameCompare(toLowerCase(JsString(JsOr(a.fieldApiName, Str(<<>>)))),
                      toLowerCase(JsString(JsOr(b.fieldApiName, Str(<<>>)))))

\* lines 427-436: the section comparator
SectionCompare2(a, b) ==
  LET ao == JsCoalesce(a.sectionOrder, PosInf)
      bo == JsCoalesce(b.sectionOrder, PosInf)
  IN IF ao # bo THEN SortSign(NumSub(ao, bo))
     ELSE NameCompare(toLowerCase(JsString(JsOr(a.name, Str(<<>>)))),
                      toLowerCase(JsString(JsOr(b.name, Str(<<>>)))))

\* the signs of a comparator on every pair of elements of seq
FieldSigns2(seq) ==
  [i \in 1..Len(seq) |-> [j \in 1..Len(seq) |-> FieldCompare2(seq[i], seq[j])]]

SectionSigns2(seq) ==
  [i \in 1..Len(seq) |-> [j \in 1..Len(seq) |-> SectionCompare2(seq[i], seq[j])]]

\* lines 407-418: every way the field sorts can come out
RECURSIVE FieldSorts2(_)
FieldSorts2(grouped) ==
  IF grouped = <<>> THEN {<<>>}
  ELSE {<<[Head(grouped) EXCEPT !.fields = fs]>> \o rest :
          fs \in SortOutcomes(Head(grouped).fields,
                              FieldSigns2(Head(grouped).fields)),
          rest \in FieldSorts2(Tail(grouped))}

\* lines 421-425: the section list before it is sorted
SectionList2(grouped) ==
  [i \in 1..Len(grouped) |->
    [name |-> grouped[i].name,
     fields |-> grouped[i].fields,
     sectionOrder |-> IF grouped[i].order.t = "nan" THEN PosInf
                      ELSE grouped[i].order]]

\* lines 334-438: the schemas the build can assign to this.sections
Build2(edges) ==
  UNION {SortOutcomes(SectionList2(grouped),
                      SectionSigns2(SectionList2(grouped))) :
           grouped \in FieldSorts2(Grouped2(edges, <<>>))}

(***************************************************************************)
(* Inputs                                                                  *)
(***************************************************************************)
\* the longest errors array a load emission carries
MaxErrors ==
  2

\* one raw record: what node.<Field>?.value yields for each queried field
Node(section, sectionOrder, sectionCriteria, attribute, type, fieldOrder, fieldCriteria, picklistValues) ==
  [Section__c |-> section,
   Section_Order__c |-> sectionOrder,
   Section_Criteria__c |-> sectionCriteria,
   Asset_Attribute__c |-> attribute,
   Asset_Type__c |-> type,
   Field_Order__c |-> fieldOrder,
   Field_Criteria__c |-> fieldCriteria,
   Picklist_Values__c |-> picklistValues]

Edge(node) ==
  [hasNode |-> TRUE, node |-> node]

\* an edge whose node is missing
EdgeNoNode ==
  [hasNode |-> FALSE,
   node |-> Node(Undef, Undef, Undef, Undef, Undef, Undef, Undef, Undef)]

SecA ==
  Str(<<"A">>)

SecB ==
  Str(<<"B">>)

FldX ==
  Str(<<"X">>)

FldY ==
  Str(<<"Y">>)

CritTargetYes ==
  Str(<<"[", "A", "]", ".", "[", "X", "]", "{", "y", "e", "s", "}">>)

CritTargetNotYes ==
  Str(<<"[", "A", "]", ".", "[", "X", "]", "{", "!", "=", "y", "e", "s", "}">>)

CritTargetBelow5 ==
  Str(<<"[", "A", "]", ".", "[", "X", "]", " ", "{", " ", "<", "5", " ", "}">>)

CritNoSuchSection ==
  Str(<<"[", "Z", "]", ".", "[", "X", "]", "{", "y", "e", "s", "}">>)

CritNoSuchField ==
  Str(<<"[", "A", "]", ".", "[", "Q", "]", "{", "y", "e", "s", "}">>)

CritTargetAbove5 ==
  Str(<<"[", "A", "]", ".", "[", "X", "]", "{", ">", "5", "}">>)

CritPositional ==
  Str(<<"1", "-", "1", "{", ">", "5", "}">>)

CritBlank ==
  Str(<<" ", " ">>)

\* the raw records load emissions are made of
NodePool ==
  { Node(SecA, Num(2), Str(<<>>), FldX, Str(<<"n", "u", "m", "b", "e", "r">>), Num(1), Str(<<>>), Undef),
    Node(SecB, Num(1), Undef, FldY, Str(<<"C", "h", "e", "c", "k", "b", "o", "x">>), Num(1), CritTargetYes, Undef),
    Node(SecB, Num(1), CritTargetBelow5, FldY, Str(<<"t", "e", "x", "t">>), Undef, Null, Undef),
    Node(SecB, Num(1), Undef, FldY, Str(<<"c", "h", "e", "c", "k", "b", "o", "x">>), Num(1), CritTargetNotYes, Undef),
    Node(SecB, Num(1), CritTargetBelow5, FldY, Str(<<"t", "e", "x", "t">>), Num(1), CritTargetYes, Undef),
    Node(SecB, Num(1), CritBlank, FldY, Str(<<"p", "i", "c", "k", "l", "i", "s", "t">>), Num(1), CritNoSuchSection,
         Str(<<"a", ",", " ", "b", ",", ",", "c">>)),
    Node(SecB, Num(3), CritNoSuchField, FldX, Str(<<"d", "a", "t", "e">>), Num(2), CritBlank, Undef),
    Node(SecB, Num(1), Undef, FldY, Str(<<"c", "h", "e", "c", "k", "b", "o", "x">>), Num(1), CritPositional, Undef),
    Node(SecB, Num(1), Undef, FldY, Str(<<"c", "h", "e", "c", "k", "b", "o", "x">>), Num(1), CritTargetAbove5, Undef),
    Node(SecA, Str(<<"a", "b", "c">>), CritPositional, FldY, Str(<<"w", "i", "d", "g", "e", "t">>), Str(<<"7">>), Undef, Undef),
    Node(Undef, Undef, Undef, Undef, Undef, Undef, Undef, Undef) }

EdgePool ==
  {Edge(n) : n \in NodePool} \cup {EdgeNoNode}

TargetEdge ==
  Edge(Node(SecA, Num(2), Str(<<>>), FldX, Str(<<"n", "u", "m", "b", "e", "r">>), Num(1), Str(<<>>), Undef))

\* the edge lists of the load emissions: no record, one record, the record
\* the rules point at together with one other, in either order, and three
\* records that put a field X into two sections next to a field Y
EdgeLists ==
  {<<>>}
  \cup {<<e>> : e \in EdgePool}
  \cup {<<TargetEdge, e>> : e \in EdgePool}
  \cup {<<e, TargetEdge>> : e \in EdgePool}
  \cup {<<TargetEdge,
           Edge(Node(SecB, Num(1), Undef, FldY, Str(<<"C", "h", "e", "c", "k", "b", "o", "x">>), Num(1), CritTargetYes, Undef)),
           Edge(Node(SecB, Num(3), CritNoSuchField, FldX, Str(<<"d", "a", "t", "e">>), Num(2), CritBlank, Undef))>>}

\* the message of the k-th error of an emission
ErrorMessage(k) ==
  <<"e", "r", "r">> \o NatToDigits(k)

\* the errors arrays the metadata source reports: 0..MaxErrors errors
ErrorsPool ==
  {[k \in 1..n |-> ErrorMessage(k)] : n \in 0..MaxErrors}

\* a load emission { data, errors }; hasData and hasErrors say whether
\* the property is defined
Emission(hasData, edges, hasErrors, errors) ==
  [hasData |-> hasData, edges |-> edges,
   hasErrors |-> hasErrors, errors |-> errors]

Emissions ==
  {Emission(TRUE, e, FALSE, <<>>) : e \in EdgeLists}
  \cup {Emission(FALSE, <<>>, TRUE, er) : er \in ErrorsPool}
  \cup {Emission(TRUE, e, TRUE, er) :
          e \in {<<TargetEdge>>}, er \in ErrorsPool}
  \cup {Emission(FALSE, <<>>, FALSE, <<>>)}

\* the load emissions definition 2 is run on: its build reads no criteria,
\* and its review panel multiplies the states of every schema
EdgeLists2 ==
  { <<>>,
    <<TargetEdge>>,
    <<EdgeNoNode>>,
    <<TargetEdge, Edge(Node(SecB, Num(1), Undef, FldY, Str(<<"C", "h", "e", "c", "k", "b", "o", "x">>), Num(1), CritTargetYes, Undef))>>,
    <<Edge(Node(SecB, Num(3), CritNoSuchField, FldX, Str(<<"d", "a", "t", "e">>), Num(2), CritBlank, Undef)), TargetEdge>> }

Emissions2 ==
  {em \in Emissions : em.edges \in EdgeLists2}

\* the values an edit in the review panel leaves in a payload:
\* event.target.value (a string) or event.target.checked (a boolean)
ReviewValuePool ==
  {Str(<<"Y", "e", "s">>), Bool(FALSE)}

\* the values an input control hands to handleChange:
\* event.target.value (a string) or event.target.checked (a boolean)
ValuePool ==
  {Str(<<"Y", "e", "s">>), Str(<<"3">>), Str(<<"1", "0">>), Bool(TRUE)}

\* the edge lists the build is exercised on by itself
BuildEdgeLists ==
  LET text == Str(<<"t", "e", "x", "t">>)
      types == {Undef, Str(<<>>), Str(<<"w", "i", "d", "g", "e", "t">>),
                Str(<<"C", "h", "e", "c", "k", "b", "o", "x">>),
                Str(TypeDate), Str(TypeDateTime), Str(TypePicklist)}
               \cup {Str(t) : t \in TypeText \cup TypeTextArea
                                      \cup TypeNumber \cup TypeCheckbox}
      names == {Str(<<"a">>), Str(<<"b">>), Str(<<"C">>)}
      orders == {Undef, Num(1), Num(10000)}
      fieldRecs == {Node(SecA, Num(1), Undef, n, text, o, Undef, Undef) :
                      n \in names, o \in orders}
      sectionRecs == {Node(n, o, Undef, FldX, text, Num(1), Undef, Undef) :
                        n \in names, o \in orders}
      mergeOrders == {Undef, Num(3), Num(5), Str(<<"a", "b", "c">>)}
      mergeCriteria == {Undef, Str(<<>>), CritTargetYes, CritTargetBelow5}
      noName == {Undef, Null, Str(<<>>)}
  IN {<<Edge(Node(SecA, Num(1), Undef, FldX, t, Num(1), Undef, Undef))>> :
        t \in types}
     \cup {<<Edge(p[1]), Edge(p[2])>> :
            p \in {q \in fieldRecs \X fieldRecs :
                     q[1].Asset_Attribute__c # q[2].Asset_Attribute__c}}
     \cup {<<Edge(p[1]), Edge(p[2])>> :
            p \in {q \in sectionRecs \X sectionRecs :
                     q[1].Section__c # q[2].Section__c}}
     \cup {<<Edge(Node(SecA, o1, Undef, FldX, text, Num(1), Undef, Undef)),
             Edge(Node(SecA, o2, Undef, FldY, text, Num(2), Undef, Undef))>> :
            o1 \in mergeOrders, o2 \in mergeOrders}
     \cup {<<Edge(Node(SecA, Num(1), c1, FldX, text, Num(1), Undef, Undef)),
             Edge(Node(SecA, Num(1), c2, FldY, text, Num(2), Undef, Undef))>> :
            c1 \in mergeCriteria, c2 \in mergeCriteria}
     \cup {<<Edge(Node(n, Undef, Undef, FldX, Undef, Undef, Undef, Undef))>> :
            n \in noName}
     \cup {<<EdgeNoNode>>, <<TargetEdge, EdgeNoNode>>, <<EdgeNoNode, TargetEdge>>}

\* the load emissions that carry them: data and no errors
BuildEmissions ==
  {Emission(TRUE, e, FALSE, <<>>) : e \in BuildEdgeLists}

\* Build1 and Build2 on every edge list of the model, computed once
Build1Of ==
  [l \in {e \in EdgeLists \cup BuildEdgeLists : \A i \in 1..Len(e) : e[i].hasNode}
     |-> Build1(l)]

Build2Of ==
  [l \in EdgeLists \cup BuildEdgeLists |-> Build2(l)]

\* data?.uiapi?.query?.Generic_Form__mdt?.edges || []
EdgesOf(em) ==
  IF em.hasData THEN em.edges ELSE <<>>

\* errors.map(e => e.message).join('; ')
ErrorText(em) ==
  Str(Join(em.errors, <<";", " ">>))

(***************************************************************************)
(* Definition 2: the review panel, lines 474-564                           *)
(***************************************************************************)
\* the key of template.querySelector('[data-field-name="${f.fieldApiName}"]')
ElementKey(fieldApiName) ==
  Str(JsString(fieldApiName))

\* the fields of a schema in document order
RECURSIVE AllFields(_)
AllFields(secs) ==
  IF secs = <<>> THEN <<>> ELSE Head(secs).fields \o AllFields(Tail(secs))

\* The template of the component is not part of the sources.  It is taken to
\* render one input element per field that has a name, carrying the name in
\* data-field-name, a checkbox for a checkbox field and a value input
\* otherwise, bound to the field's value.
FreshElement(f) ==
  [type |-> IF f.isCheckbox THEN "checkbox" ELSE "text",
   value |-> f.value,
   checked |-> Truthy(f.value)]

\* the elements after a render of secs when the elements were old: the
\* framework may reuse an element of the same name and type or create it anew
RenderOutcomes(secs, old) ==
  LET all == AllFields(secs)
      named == {i \in 1..Len(all) : all[i].fieldApiName.t = "str"}
      names == {all[i].fieldApiName : i \in named}
      first(n) == all[FindIndex({i \in named : all[i].fieldApiName = n})]
      fresh == [n \in names |-> FreshElement(first(n))]
      reused == [n \in names |->
                  IF n \in DOMAIN old /\ old[n].type = fresh[n].type
                  THEN old[n] ELSE fresh[n]]
  IN {fresh, reused}

\* lines 480-484: the value buildReviewPayload reports for field f
PayloadValue(f, dom) ==
  LET key == ElementKey(f.fieldApiName)
  IN IF key \in DOMAIN dom
     THEN IF dom[key].type = "checkbox" THEN Bool(dom[key].checked)
          ELSE JsCoalesce(dom[key].value, JsCoalesce(Undef, Null))
     ELSE JsCoalesce(f.value, Null)

\* lines 474-509: buildReviewPayload()
buildReviewPayload(secs, dom) ==
  [sections |->
    [i \in 1..Len(secs) |->
      [name |-> secs[i].name,
       fields |->
         [j \in 1..Len(secs[i].fields) |->
           LET f == secs[i].fields[j]
           IN [section |-> f.section,
               fieldApiName |-> f.fieldApiName,
               fieldType |-> f.fieldType,
               comboboxOptions |-> f.comboboxOptions,
               isText |-> f.isText,
               isTextArea |-> f.isTextArea,
               isNumber |-> f.isNumber,
               isDate |-> f.isDate,
               isDateTime |-> f.isDateTime,
               isCheckbox |-> f.isCheckbox,
               isPicklist |-> f.isPicklist,
               isOther |-> f.isOther,
               value |-> PayloadValue(f, dom)]]]]]

\* evt.detail of a reviewoverwrite event: absent, or an object that may
\* carry sections
Detail(defined, hasSections, secs) ==
  [defined |-> defined, hasSections |-> hasSections, sections |-> secs]

\* lines 530-540: the writes into the input elements, field after field
RECURSIVE ApplyToInputs(_, _)
ApplyToInputs(fields, dom) ==
  IF fields = <<>> THEN dom
  ELSE LET f == Head(fields)
           key == ElementKey(f.fieldApiName)
           written ==
             IF key \notin DOMAIN dom THEN dom
             ELSE IF dom[key].type = "checkbox"
             THEN [dom EXCEPT ![key].checked = Truthy(f.value)]
             ELSE [dom EXCEPT ![key].value = f.value]
       IN ApplyToInputs(Tail(fields), written)

\* mutant of ApplyToSections: the incoming field replaces the schema field
ApplyToSections_ReplaceField(secs, updated) ==
  [i \in 1..Len(secs) |->
    LET sec == secs[i]
        si == FindIndex({k \in 1..Len(updated) : updated[k].name = sec.name})
    IN IF si = 0 THEN sec
       ELSE [sec EXCEPT !.fields =
              [j \in 1..Len(sec.fields) |->
                LET f == sec.fields[j]
                    incoming == updated[si].fields
                    fi == FindIndex({k \in 1..Len(incoming) :
                                       incoming[k].fieldApiName = f.fieldApiName})
                IN IF fi = 0 THEN f
                   ELSE [f EXCEPT !.value = incoming[fi].value,
                                  !.fieldApiName = Undef]]]]

\* mutant of ApplyToSections: a field without incoming field is reset
ApplyToSections_ClearUnmatched(secs, updated) ==
  [i \in 1..Len(secs) |->
    LET sec == secs[i]
        si == FindIndex({k \in 1..Len(updated) : updated[k].name = sec.name})
    IN IF si = 0
       THEN [sec EXCEPT !.fields =
              [j \in 1..Len(sec.fields) |-> [sec.fields[j] EXCEPT !.value = Null]]]
       ELSE [sec EXCEPT !.fields =
              [j \in 1..Len(sec.fields) |->
                LET f == sec.fields[j]
                    incoming == updated[si].fields
                    fi == FindIndex({k \in 1..Len(incoming) :
                                       incoming[k].fieldApiName = f.fieldApiName})
                IN IF fi = 0 THEN [f EXCEPT !.value = Null]
                   ELSE [f EXCEPT !.value = incoming[fi].value]]]]

\* mutant of ApplyToSections: a field that takes an incoming value is marked
\* hidden
ApplyToSections_HideOverwritten(secs, updated) ==
  [i \in 1..Len(secs) |->
    LET sec == secs[i]
        si == FindIndex({k \in 1..Len(updated) : updated[k].name = sec.name})
    IN IF si = 0 THEN sec
       ELSE [sec EXCEPT !.fields =
              [j \in 1..Len(sec.fields) |->
                LET f == sec.fields[j]
                    incoming == updated[si].fields
                    fi == FindIndex({k \in 1..Len(incoming) :
                                       incoming[k].fieldApiName = f.fieldApiName})
                IN IF fi = 0 THEN f
                   ELSE [k \in DOMAIN f \cup {"isVisible"} |->
                          IF k = "isVisible" THEN FALSE
                          ELSE IF k = "value" THEN incoming[fi].value
                          ELSE f[k]]]]]

\* lines 543-552: the new value of this.sections
ApplyToSections(secs, updated) ==
  [i \in 1..Len(secs) |->
    LET sec == secs[i]
        si == FindIndex({k \in 1..Len(updated) : updated[k].name = sec.name})
    IN IF si = 0 THEN sec
       ELSE [sec EXCEPT !.fields =
              [j \in 1..Len(sec.fields) |->
                LET f == sec.fields[j]
                    incoming == updated[si].fields
                    fi == FindIndex({k \in 1..Len(incoming) :
                                       incoming[k].fieldApiName = f.fieldApiName})
                IN IF fi = 0 THEN f
                   ELSE [f EXCEPT !.value = incoming[fi].value]]]]

(***************************************************************************)
(* State machine                                                           *)
(***************************************************************************)
\* no pure function applied yet
NoCall ==
  [fn |-> "none"]

\* no c-review-form element is rendered
NoReviewForm ==
  [connected |-> FALSE, open |-> FALSE, localEditable |-> Undef]

\* fsc_treeView.js lines 66-73: the fields of a tree view as constructed
NewTreeView ==
  [isModalOpen |-> FALSE, selectedNode |-> Undef, loading |-> TRUE,
   error |-> Undef, treeData |-> <<>>, locationId |-> Undef,
   locationName |-> Undef, assetLocationIds |-> <<>>]

\* no wire adapter serves a tree view
NoWires ==
  [emitted |-> [workOrder |-> 0, location |-> 0, asset |-> 0]]

\* event is a history variable: the handler that ran last and its input
Event(op, em, fieldName, value) ==
  [op |-> op, emission |-> em, fieldName |-> fieldName, value |-> value]

NoEmission ==
  Emission(FALSE, <<>>, FALSE, <<>>)

Init ==
  /\ ver \in {1, 2}
  /\ sections = <<>>
  /\ loading = TRUE
  /\ schemaError = Undef
  /\ microtasks = <<>>
  /\ event = Event("constructor", NoEmission, Undef, Undef)
  /\ showReview = FALSE
  /\ reviewPayload = Undef
  /\ showKeepEmoji = FALSE
  /\ inputs = <<>>
  /\ call = NoCall
  /\ reviewForm = NoReviewForm
  /\ treeView = NewTreeView
  /\ wires = NoWires

\* mutant of SchedulePass: the pass after the build is never queued
SchedulePass_Dropped(queue) ==
  queue

\* line 108: Promise.resolve().then(() => this.reEvaluateVisibility())
SchedulePass(queue) ==
  Append(queue, "reEvaluateVisibility")

\* definition 1, lines 43-115.  A wire emission is delivered as a job of its
\* own: the microtask queue is empty when it starts.
wiredForm1(em) ==
  /\ ver = 1
  /\ microtasks = <<>>
  /\ IF em.hasErrors
     THEN /\ schemaError' = ErrorText(em)
          /\ UNCHANGED <<sections, microtasks>>
     ELSE IF \E i \in 1..Len(EdgesOf(em)) : ~EdgesOf(em)[i].hasNode
     THEN /\ schemaError' = NoNodeMessage
          /\ UNCHANGED <<sections, microtasks>>
     ELSE /\ sections' \in Build1Of[EdgesOf(em)]
          /\ microtasks' = SchedulePass(microtasks)
          /\ UNCHANGED schemaError
  /\ loading' = FALSE
  /\ event' = Event("wiredForm", em, Undef, Undef)
  /\ UNCHANGED <<ver, reviewVars, call,
               reviewForm, treeVars>>

\* definition 2, lines 320-447
wiredForm2(em) ==
  /\ ver = 2
  /\ microtasks = <<>>
  /\ IF ~em.hasData /\ ~em.hasErrors
     THEN UNCHANGED <<sections, schemaError, loading, inputs>>
     ELSE IF em.hasErrors /\ Len(em.errors) # 0
     THEN /\ schemaError' = ErrorText(em)
          /\ sections' = <<>>
          /\ loading' = FALSE
          /\ inputs' \in RenderOutcomes(sections', inputs)
     ELSE /\ sections' \in Build2Of[EdgesOf(em)]
          /\ schemaError' = Undef
          /\ loading' = FALSE
          /\ inputs' \in RenderOutcomes(sections', inputs)
  /\ event' = Event("wiredForm", em, Undef, Undef)
  /\ UNCHANGED <<ver, microtasks, showReview, reviewPayload, showKeepEmoji, call,
               reviewForm, treeVars>>

\* mutant of WriteValue: only the first section that has the field is
\* written
WriteValue_FirstSection(secs, fieldName, value) ==
  LET has == {i \in 1..Len(secs) :
                \E j \in 1..Len(secs[i].fields) :
                  secs[i].fields[j].fieldApiName = fieldName}
  IN [i \in 1..Len(secs) |->
       [secs[i] EXCEPT !.fields =
         [j \in 1..Len(secs[i].fields) |->
           IF secs[i].fields[j].fieldApiName = fieldName /\ i = FindIndex(has)
           THEN [secs[i].fields[j] EXCEPT !.value = value]
           ELSE secs[i].fields[j]]]]

\* lines 134-141: the write of handleChange
WriteValue(secs, fieldName, value) ==
  [i \in 1..Len(secs) |->
    [secs[i] EXCEPT !.fields =
      [j \in 1..Len(secs[i].fields) |->
        IF secs[i].fields[j].fieldApiName = fieldName
        THEN [secs[i].fields[j] EXCEPT !.value = value]
        ELSE secs[i].fields[j]]]]

\* the data-field-name attributes of the form: one input per field
FieldNames(secs) ==
  UNION {{secs[i].fields[j].fieldApiName : j \in 1..Len(secs[i].fields)} :
           i \in 1..Len(secs)}

\* mutant of handleChange: the recompute runs before the write
handleChange_RecomputeFirst(fieldName, value) ==
  /\ ver = 1
  /\ microtasks = <<>>
  /\ fieldName \in FieldNames(sections)
  /\ sections' = WriteValue(reEvaluateVisibility(sections), fieldName, value)
  /\ event' = Event("handleChange", NoEmission, fieldName, value)
  /\ UNCHANGED <<ver, loading, schemaError, microtasks, reviewVars, call,
               reviewForm, treeVars>>

\* definition 1, lines 122-144: a DOM event, handled as a task of its own
handleChange(fieldName, value) ==
  /\ ver = 1
  /\ microtasks = <<>>
  /\ fieldName \in FieldNames(sections)
  /\ sections' = reEvaluateVisibility(WriteValue(sections, fieldName, value))
  /\ event' = Event("handleChange", NoEmission, fieldName, value)
  /\ UNCHANGED <<ver, loading, schemaError, microtasks, reviewVars, call,
               reviewForm, treeVars>>

\* the job line 108 queued: () => this.reEvaluateVisibility()
RunMicrotask ==
  /\ microtasks # <<>>
  /\ Head(microtasks) = "reEvaluateVisibility"
  /\ sections' = reEvaluateVisibility(sections)
  /\ microtasks' = Tail(microtasks)
  /\ event' = Event("reEvaluateVisibility", NoEmission, Undef, Undef)
  /\ UNCHANGED <<ver, loading, schemaError, reviewVars, call,
               reviewForm, treeVars>>

\* mutant of handleSendInfo: the tick of the last review is not reset
handleSendInfo_TickKept ==
  /\ ver = 2
  /\ microtasks = <<>>
  /\ reviewPayload' = buildReviewPayload(sections, inputs)
  /\ showReview' = TRUE
  /\ event' = Event("handleSendInfo", NoEmission, Undef, Undef)
  /\ UNCHANGED <<ver, sections, loading, schemaError, microtasks, inputs, call,
               showKeepEmoji, reviewForm, treeVars>>

\* definition 2, lines 512-516
handleSendInfo ==
  /\ ver = 2
  /\ microtasks = <<>>
  /\ showKeepEmoji' = FALSE
  /\ reviewPayload' = buildReviewPayload(sections, inputs)
  /\ showReview' = TRUE
  /\ event' = Event("handleSendInfo", NoEmission, Undef, Undef)
  /\ UNCHANGED <<ver, sections, loading, schemaError, microtasks, inputs, call,
               reviewForm, treeVars>>

\* a payload with the value of field j of section i set to v: what the
\* review panel holds after an edit
EditedPayload(payload, i, j, v) ==
  [payload EXCEPT !.sections[i].fields[j].value = v]

\* the details a reviewoverwrite event can carry: none, an object without
\* sections, an empty payload, the payload last sent to the review panel,
\* that payload with one value edited, and the edited section alone
UpdatedPool(payload) ==
  {Detail(FALSE, FALSE, <<>>), Detail(TRUE, FALSE, <<>>), Detail(TRUE, TRUE, <<>>)}
  \cup (IF payload = Undef THEN {}
        ELSE {Detail(TRUE, TRUE, payload.sections)}
             \cup UNION {{Detail(TRUE, TRUE, EditedPayload(payload, i, j, v).sections) :
                            j \in 1..Len(payload.sections[i].fields), v \in ReviewValuePool} :
                          i \in 1..Len(payload.sections)}
             \cup UNION {{Detail(TRUE, TRUE, <<EditedPayload(payload, i, j, v).sections[i]>>) :
                            j \in 1..Len(payload.sections[i].fields), v \in ReviewValuePool} :
                          i \in 1..Len(payload.sections)})

\* definition 2, lines 519-556
handleReviewOverwrite(updated) ==
  /\ ver = 2
  /\ microtasks = <<>>
  /\ IF ~updated.defined \/ ~updated.hasSections
     THEN /\ showReview' = FALSE
          /\ UNCHANGED <<sections, inputs, showKeepEmoji>>
     ELSE /\ inputs' = ApplyToInputs(AllFields(updated.sections), inputs)
          /\ sections' = ApplyToSections(sections, updated.sections)
          /\ showReview' = FALSE
          /\ showKeepEmoji' = FALSE
  /\ event' = Event("handleReviewOverwrite", NoEmission, Undef, updated)
  /\ UNCHANGED <<ver, loading, schemaError, microtasks, reviewPayload, call, treeVars>>

\* definition 2, lines 559-564
handleReviewKeep ==
  /\ ver = 2
  /\ microtasks = <<>>
  /\ showReview' = FALSE
  /\ showKeepEmoji' = TRUE
  /\ event' = Event("handleReviewKeep", NoEmission, Undef, Undef)
  /\ UNCHANGED <<ver, sections, loading, schemaError, microtasks, reviewPayload, inputs, call, treeVars>>

Next ==
  \/ \E em \in Emissions : wiredForm1(em)
  \/ \E em \in Emissions2 : wiredForm2(em)
  \/ \E v \in ValuePool : \E fieldName \in FieldNames(sections) :
       handleChange(fieldName, v)
  \/ RunMicrotask
  \/ handleSendInfo
  \/ \E updated \in UpdatedPool(reviewPayload) :
       handleReviewOverwrite(updated) /\ UNCHANGED reviewForm
  \/ handleReviewKeep /\ UNCHANGED reviewForm

Spec ==
  Init /\ [][Next]_vars

(***************************************************************************)
(* Properties of the visibility engine (definition 1)                      *)
(***************************************************************************)
\* the handlers that end with a visibility pass
PassOps ==
  {"reEvaluateVisibility", "handleChange"}

\* a state of definition 1 that a visibility pass has just produced
AfterPass ==
  ver = 1 /\ event.op \in PassOps

\* raw holds no rule: absent, empty or white space only
NoCriteria(raw) ==
  IsNullish(raw) \/ \A i \in 1..Len(JsString(raw)) : JsString(raw)[i] \in WhiteSpace

\* raw holds no rule, or its rule is satisfied by the values of secs
CriteriaSatisfied(secs, raw) ==
  normalizeCriteria(raw) = <<>> \/ evaluateCriteria(secs, normalizeCriteria(raw))

\* the rule of section i (role "section", its parent counting as visible)
\* and of every field of section i (role "field")
OwnersOf(secs, i) ==
  {[role |-> "section", raw |-> secs[i].sectionCriteria,
    isVisible |-> secs[i].isVisible, parentVisible |-> TRUE]}
  \cup {[role |-> "field", raw |-> secs[i].fields[j].fieldCriteria,
         isVisible |-> secs[i].fields[j].isVisible,
         parentVisible |-> secs[i].isVisible] : j \in 1..Len(secs[i].fields)}

\* every section and field of secs as the owner of a criteria string
Owners(secs) ==
  UNION {OwnersOf(secs, i) : i \in 1..Len(secs)}

\* the rule the criteria string raw parses to
RuleOf(raw) ==
  CRITERIA_REGEX(normalizeCriteria(raw))

\* the section and the field a parsed rule names both exist in secs
TargetExists(secs, m) ==
  \E i \in 1..Len(secs) :
    /\ secs[i].name = Str(m.sectionName)
    /\ \E j \in 1..Len(secs[i].fields) :
         secs[i].fields[j].fieldApiName = Str(m.fieldName)

\* the flags of secs are those the values of secs call for
FlagsMatchValues(secs) ==
  \A i \in 1..Len(secs) :
    /\ secs[i].isVisible = CriteriaSatisfied(secs, secs[i].sectionCriteria)
    /\ \A j \in 1..Len(secs[i].fields) :
         secs[i].fields[j].isVisible =
           (secs[i].isVisible
            /\ CriteriaSatisfied(secs, secs[i].fields[j].fieldCriteria))

\* C1: in every reachable state of definition 1 (after the build, after the
\* first pass, after any edits) no field is visible while its section is
\* hidden.
C1_NoVisibleFieldInHiddenSection ==
  ver = 1 =>
    \A i \in 1..Len(sections) : \A j \in 1..Len(sections[i].fields) :
      sections[i].fields[j].isVisible => sections[i].isVisible

\* C1 witness: after a pass a section is hidden, and a field of it whose own
\* non-empty rule is satisfied is hidden with it.
C1_Witness ==
  /\ AfterPass
  /\ \E i \in 1..Len(sections) : \E j \in 1..Len(sections[i].fields) :
       /\ ~sections[i].isVisible
       /\ ~sections[i].fields[j].isVisible
       /\ normalizeCriteria(sections[i].fields[j].fieldCriteria) # <<>>
       /\ evaluateCriteria(sections,
                           normalizeCriteria(sections[i].fields[j].fieldCriteria))

\* C2: after every run of reEvaluateVisibility a section is visible iff its
\* criteria is empty or evaluates true on the current values, and a field is
\* visible iff its section is and its own criteria is empty or evaluates true.
C2_PassComputesFlags ==
  AfterPass => FlagsMatchValues(sections)

\* C2 witness: after a pass a section with a rule is visible, one field with
\* a rule is visible and another field with a rule is hidden.
C2_Witness ==
  /\ AfterPass
  /\ \E i \in 1..Len(sections) :
       /\ normalizeCriteria(sections[i].sectionCriteria) # <<>>
       /\ sections[i].isVisible
       /\ \E j \in 1..Len(sections[i].fields) :
            /\ normalizeCriteria(sections[i].fields[j].fieldCriteria) # <<>>
            /\ ~sections[i].fields[j].isVisible

\* C3: a field edit handleChange(fieldName, v) is one step that writes v to
\* the fields named fieldName and leaves every flag equal to the flag
\* computed from the values that include v.
C3_EditThenRecompute ==
  [][event'.op = "handleChange" =>
       /\ Len(sections') = Len(sections)
       /\ \A i \in 1..Len(sections) :
            /\ Len(sections'[i].fields) = Len(sections[i].fields)
            /\ \A j \in 1..Len(sections[i].fields) :
                 sections'[i].fields[j].value =
                   IF sections[i].fields[j].fieldApiName = event'.fieldName
                   THEN event'.value
                   ELSE sections[i].fields[j].value
       /\ FlagsMatchValues(sections')]_vars

\* C3 witness: an edit has just written the value a rule waits for, and the
\* field carrying the rule is visible.
C3_Witness ==
  /\ ver = 1
  /\ event.op = "handleChange"
  /\ \E i \in 1..Len(sections) : \E j \in 1..Len(sections[i].fields) :
       /\ RuleOf(sections[i].fields[j].fieldCriteria).ok
       /\ sections[i].fields[j].isVisible
       /\ \E k \in 1..Len(sections) : \E l \in 1..Len(sections[k].fields) :
            /\ sections[k].fields[l].fieldApiName = event.fieldName
            /\ sections[k].fields[l].value = event.value

\* C4: the pass a successful load queues has run before the next event (a
\* field edit or a load emission) is handled: no handler starts while the pass
\* is pending or on flags that are not those the values call for.
C4_PassBeforeNextEvent ==
  [][(ver = 1 /\ event'.op \in {"handleChange", "wiredForm"}) =>
       (microtasks = <<>> /\ FlagsMatchValues(sections))]_vars

\* C4 witness: a load has just built a schema whose build-time flags are not
\* the flags its values call for, and its pass is pending.
C4_Witness ==
  /\ ver = 1
  /\ event.op = "wiredForm"
  /\ microtasks # <<>>
  /\ ~FlagsMatchValues(sections)

\* C5: reEvaluateVisibility is idempotent: in every state a pass has produced,
\* a second pass with no value change in between reproduces the sections,
\* flags included.
C5_PassIdempotent ==
  AfterPass => reEvaluateVisibility(sections) = sections

\* C5 witness: a pass has produced a schema with a hidden section and a
\* visible section.
C5_Witness ==
  /\ AfterPass
  /\ \E i \in 1..Len(sections) : ~sections[i].isVisible
  /\ \E i \in 1..Len(sections) : sections[i].isVisible

\* C6: a rule whose target field exists and holds null evaluates to false
\* whatever its operator, and the section or field it guards is hidden after
\* the pass.
C6_NullTargetFailsClosed ==
  AfterPass =>
    \A o \in Owners(sections) :
      (/\ RuleOf(o.raw).ok
       /\ TargetExists(sections, RuleOf(o.raw))
       /\ IsNullish(ActualValue(sections, RuleOf(o.raw))))
      => (/\ ~evaluateCriteria(sections, normalizeCriteria(o.raw))
          /\ ~o.isVisible)

\* C6 witness: after a pass a field whose rule has the operator != and a
\* target holding null is hidden although its section is visible.
C6_Witness ==
  /\ AfterPass
  /\ \E o \in Owners(sections) :
       /\ RuleOf(o.raw).ok
       /\ RuleOf(o.raw).operator = <<"!", "=">>
       /\ TargetExists(sections, RuleOf(o.raw))
       /\ ActualValue(sections, RuleOf(o.raw)) = Null
       /\ o.parentVisible
       /\ ~o.isVisible

\* C7: a well-formed rule naming a section the schema lacks, or a field the
\* named section lacks, evaluates to false for every assignment of values,
\* and the section or field it guards is hidden after the pass.
C7_UnresolvedTargetFailsClosed ==
  ver = 1 =>
    \A o \in Owners(sections) :
      (RuleOf(o.raw).ok /\ ~TargetExists(sections, RuleOf(o.raw)))
      => (/\ ~evaluateCriteria(sections, normalizeCriteria(o.raw))
          /\ (event.op \in PassOps => ~o.isVisible))

\* C7 witness: after an edit gave a field the value the rule expects, a field
\* whose rule names a missing section is hidden in a visible section.
C7_Witness ==
  /\ AfterPass
  /\ \E o \in Owners(sections) :
       /\ RuleOf(o.raw).ok
       /\ ~TargetExists(sections, RuleOf(o.raw))
       /\ o.parentVisible
       /\ ~o.isVisible
       /\ \E i \in 1..Len(sections) : \E j \in 1..Len(sections[i].fields) :
            /\ sections[i].fields[j].fieldApiName = Str(RuleOf(o.raw).fieldName)
            /\ ~IsNullish(sections[i].fields[j].value)
            /\ toLowerCase(JsString(sections[i].fields[j].value))
                 = toLowerCase(RuleOf(o.raw).expected)

\* a non-empty criteria string the regular expression rejects
Malformed(raw) ==
  normalizeCriteria(raw) # <<>> /\ ~RuleOf(raw).ok

\* C8 as stated: a non-empty criteria string that does not match the grammar
\* counts as no rule, so its section or field is visible after every pass (a
\* field provided its section is visible).
C8_MalformedIsNoRule ==
  AfterPass =>
    \A o \in Owners(sections) :
      Malformed(o.raw) => (o.parentVisible => o.isVisible)

\* C8 as amended: a non-empty criteria string that does not match the grammar
\* evaluates to false, so its section or field is hidden after every pass.
C8_MalformedFailsClosed ==
  AfterPass =>
    \A o \in Owners(sections) :
      Malformed(o.raw) => ~o.isVisible

\* C8 witness: after a pass a field with a malformed criteria string is
\* hidden in a visible section.
C8_Witness ==
  /\ AfterPass
  /\ \E o \in Owners(sections) :
       Malformed(o.raw) /\ o.role = "field" /\ o.parentVisible /\ ~o.isVisible

\* C9 as stated: every section and every field whose criteria string is
\* empty, absent or white space only is visible after every pass.
C9_NoCriteriaIsVisible ==
  AfterPass =>
    \A o \in Owners(sections) : NoCriteria(o.raw) => o.isVisible

\* C9 as amended: after every pass a section whose criteria string is empty,
\* absent or white space only is visible, and a field whose criteria string
\* is empty, absent or white space only is visible iff its section is.
C9_NoCriteriaFollowsSection ==
  AfterPass =>
    \A o \in Owners(sections) :
      NoCriteria(o.raw) => (o.isVisible = o.parentVisible)

\* C9 witness: after a pass a section without criteria is visible, and a
\* field with a white-space-only criteria string is hidden in a hidden section.
C9_Witness ==
  /\ AfterPass
  /\ \E o \in Owners(sections) :
       o.role = "section" /\ NoCriteria(o.raw) /\ o.isVisible
  /\ \E o \in Owners(sections) :
       /\ o.role = "field"
       /\ ~IsNullish(o.raw)
       /\ JsString(o.raw) # <<>>
       /\ NoCriteria(o.raw)
       /\ ~o.parentVisible
       /\ ~o.isVisible

(***************************************************************************)
(* Properties of the metadata load                                         *)
(***************************************************************************)
\* the last handler was a load emission that reported at least one error
ErrorsEmitted ==
  /\ event.op = "wiredForm"
  /\ event.emission.hasErrors
  /\ Len(event.emission.errors) > 0

\* C10: whenever the metadata source emits errors, also after an earlier
\* successful load, the form is left with schemaError the joined messages and
\* sections the empty list, under each definition of wiredForm.
C10_ErrorsClearSchema ==
  ErrorsEmitted =>
    (schemaError = ErrorText(event.emission) /\ sections = <<>>)

(***************************************************************************)
(* evaluateCriteria on its own                                             *)
(***************************************************************************)
\* the values the target field can hold: null after the build, then what
\* handleChange writes, event.target.value (a string, empty when the input
\* is cleared) or event.target.checked
ActualPool ==
  {Null, Bool(TRUE), Bool(FALSE), Str(<<>>),
   Str(<<"Y", "e", "s">>), Str(<<"y", "e", "s">>), Str(<<"n", "o">>),
   Str(<<"1", "5">>), Str(<<"9">>), Str(<<"1", "0">>), Str(<<"a", "b", "c">>)}

\* the operators a rule is written with
OperatorPool ==
  {<<>>, <<"=">>, <<"=", "=">>, <<"!", "=">>, <<"~">>,
   <<">">>, <<">", "=">>, <<"<">>, <<"<", "=">>}

\* the expected literals a rule is written with
ExpectedPool ==
  {<<"y", "e", "s">>, <<"T", "R", "U", "E">>, <<"e", "s">>,
   <<"1", "0">>, <<"5">>, <<"a", "b", "c">>}

\* the text of the rule [section].[field]{operator expected}
CriteriaText(section, field, operator, expected) ==
  <<"[">> \o section \o <<"]", ".", "[">> \o field \o <<"]", "{">>
    \o operator \o expected \o <<"}">>

\* the schemas of the single record [A].[X] with a value in the field
EvalSchemas ==
  {reEvaluateVisibility(WriteValue(s, FldX, v)) :
     s \in Build1(<<TargetEdge>>), v \in ActualPool}

InitEval ==
  /\ ver = 1
  /\ sections \in EvalSchemas
  /\ loading = FALSE
  /\ schemaError = Undef
  /\ microtasks = <<>>
  /\ event = Event("handleChange", NoEmission, FldX, sections[1].fields[1].value)
  /\ showReview = FALSE
  /\ reviewPayload = Undef
  /\ showKeepEmoji = FALSE
  /\ inputs = <<>>
  /\ call = NoCall
  /\ reviewForm = NoReviewForm
  /\ treeView = NewTreeView
  /\ wires = NoWires

\* this.evaluateCriteria(criteria) with the text of a rule on [A].[X]
evaluateCriteriaCall(operator, expected) ==
  /\ call' = [fn |-> "evaluateCriteria",
              operator |-> operator,
              expected |-> expected,
              result |-> evaluateCriteria(sections,
                           CriteriaText(SecA.s, FldX.s, operator, expected))]
  /\ UNCHANGED <<ver, sections, loading, schemaError, microtasks, event, reviewVars,
               reviewForm, treeVars>>

NextEval ==
  \E operator \in OperatorPool : \E expected \in ExpectedPool :
    evaluateCriteriaCall(operator, expected)

SpecEval ==
  InitEval /\ [][NextEval]_vars

\* the value a rule on [A].[X] is evaluated against
Actual ==
  sections[1].fields[1].value

\* a rule on [A].[X] with one of the operators ops has been evaluated
\* against a value that is neither null nor undefined
Evaluated(ops) ==
  /\ call.fn = "evaluateCriteria"
  /\ call.operator \in ops
  /\ ~IsNullish(Actual)

\* C11: a rule with operator =, == or no operator, evaluated against a
\* non-null value, is satisfied iff the string form of the value equals the
\* expected literal ignoring case.
C11_EqualityIgnoresCase ==
  Evaluated({<<>>, <<"=">>, <<"=", "=">>}) =>
    (call.result <=> toLowerCase(JsString(Actual)) = toLowerCase(call.expected))

\* the checkbox value true satisfies the rule {==TRUE}
C11_Witness ==
  /\ Evaluated({<<"=", "=">>})
  /\ Actual = Bool(TRUE)
  /\ call.expected = <<"T", "R", "U", "E">>
  /\ call.result

\* C12: a rule with operator !=, evaluated against a non-null value, is
\* satisfied iff the string form of the value differs from the expected
\* literal ignoring case.
C12_NotEqualIsOpposite ==
  Evaluated({<<"!", "=">>}) =>
    (call.result <=> toLowerCase(JsString(Actual)) # toLowerCase(call.expected))

\* needle occurs in hay
Contains(hay, needle) ==
  \E i \in 1..(Len(hay) - Len(needle) + 1) :
    SubSeq(hay, i, i + Len(needle) - 1) = needle

\* C13: a rule with operator ~, evaluated against a non-null value, is
\* satisfied iff the expected literal occurs in the string form of the value
\* ignoring case.
C13_ContainsIgnoresCase ==
  Evaluated({<<"~">>}) =>
    (call.result <=> Contains(toLowerCase(JsString(Actual)),
                              toLowerCase(call.expected)))

\* a string that reads as a number: an optionally signed run of digits
IsNumeral(s) ==
  LET body == IF s # <<>> /\ s[1] \in {"+", "-"} THEN Tail(s) ELSE s
  IN body # <<>> /\ \A i \in 1..Len(body) : IsDigit(body[i])

\* the number a numeral denotes
NumeralValue(s) ==
  IF s[1] = "-" THEN 0 - DigitsToNat(Tail(s))
  ELSE IF s[1] = "+" THEN DigitsToNat(Tail(s))
  ELSE DigitsToNat(s)

\* C14: a rule with operator >, >=, < or <=, evaluated against a string
\* value, is false when the value or the expected literal is not numeric,
\* and is otherwise the comparison of the two numbers.
C14_NumericComparison ==
  (Evaluated(NumericOperators) /\ Actual.t = "str") =>
    (call.result <=>
      /\ IsNumeral(Actual.s)
      /\ IsNumeral(call.expected)
      /\ LET a == NumeralValue(Actual.s)
             e == NumeralValue(call.expected)
         IN CASE call.operator = <<">">> -> a > e
              [] call.operator = <<">", "=">> -> a >= e
              [] call.operator = <<"<">> -> a < e
              [] OTHER -> a <= e)

(***************************************************************************)
(* The schema build on its own                                             *)
(***************************************************************************)
NextBuild ==
  \/ \E em \in BuildEmissions : wiredForm1(em)
  \/ \E em \in BuildEmissions : wiredForm2(em)
  \/ RunMicrotask

SpecBuild ==
  Init /\ [][NextBuild]_vars

\* the raw records of the load that has just been handled
Loaded ==
  [i \in 1..Len(event.emission.edges) |-> event.emission.edges[i].node]

\* a load without errors, every edge of which has a node, has just been
\* handled: this.sections is the schema built from it
Built ==
  /\ event.op = "wiredForm"
  /\ event.emission.hasData
  /\ ~event.emission.hasErrors
  /\ \A i \in 1..Len(event.emission.edges) : event.emission.edges[i].hasNode

\* how many of the field-kind flags of a built field are true
KindFlags(f) ==
  Cardinality({k \in DOMAIN f \cap {"isText", "isTextArea", "isNumber", "isDate",
                                   "isDateTime", "isCheckbox", "isPicklist",
                                   "isOther"} : f[k]})

\* C15: every field built by either wiredForm definition has exactly one
\* field-kind flag true, whatever the raw type string (a known tag, an
\* unknown tag, empty or absent).
C15_ExactlyOneKind ==
  Built =>
    \A i \in 1..Len(sections) : \A j \in 1..Len(sections[i].fields) :
      KindFlags(sections[i].fields[j]) = 1

\* the section a raw record belongs to, and where the schema has it
SectionNameOf(r) ==
  IF Truthy(r.Section__c) THEN r.Section__c ELSE Str(Other)

SectionIndexOf(r) ==
  FindIndex({i \in 1..Len(sections) : sections[i].name = SectionNameOf(r)})

\* where the section of record r has the field built from r
FieldIndexOf(r) ==
  FindIndex({j \in 1..Len(sections[SectionIndexOf(r)].fields) :
               sections[SectionIndexOf(r)].fields[j].fieldApiName
                 = r.Asset_Attribute__c})

\* the entry (name1, order1) sorts strictly before the entry (name2, order2):
\* a smaller explicit order, an explicit order against a missing one, or the
\* same explicit order and a smaller name ignoring case
SortsBefore(name1, order1, name2, order2) ==
  \/ order1.t = "num" /\ order2.t = "num" /\ order1.n < order2.n
  \/ order1.t = "num" /\ IsNullish(order2)
  \/ /\ order1.t = "num"
     /\ order1 = order2
     /\ StrLess(toLowerCase(name1.s), toLowerCase(name2.s))

\* C16: in the schema built by either wiredForm definition, whatever the
\* input order of the records, the fields of a section and the sections are
\* sorted by explicit order, then by name ignoring case, an entry without
\* order after every entry with one.
C16_SortedByOrderThenName ==
  Built =>
    \A a, b \in 1..Len(Loaded) :
      LET r1 == Loaded[a]
          r2 == Loaded[b]
      IN /\ (/\ SectionNameOf(r1) = SectionNameOf(r2)
             /\ SortsBefore(r1.Asset_Attribute__c, r1.Field_Order__c,
                            r2.Asset_Attribute__c, r2.Field_Order__c))
              => FieldIndexOf(r1) < FieldIndexOf(r2)
         /\ (/\ SectionNameOf(r1) # SectionNameOf(r2)
             /\ SortsBefore(r1.Section__c, r1.Section_Order__c,
                            r2.Section__c, r2.Section_Order__c))
              => SectionIndexOf(r1) < SectionIndexOf(r2)

\* the records of the load that name the section sections[i], in input order
RecordsOf(i) ==
  {a \in 1..Len(Loaded) : SectionNameOf(Loaded[a]) = sections[i].name}

\* the orders the records of sections[i] declare with a numeral
DeclaredOrders(i) ==
  {Loaded[a].Section_Order__c.n : a \in {b \in RecordsOf(i) :
                                          Loaded[b].Section_Order__c.t = "num"}}

\* C17: the order of a built section is the minimum of the orders its
\* records declare, an absent or unparseable order counting as +infinity:
\* when some record declares a number, the least such number.
C17_MinimumOrderWins ==
  Built =>
    \A i \in 1..Len(sections) :
      DeclaredOrders(i) # {} =>
        /\ sections[i].sectionOrder.t = "num"
        /\ sections[i].sectionOrder.n \in DeclaredOrders(i)
        /\ \A n \in DeclaredOrders(i) : sections[i].sectionOrder.n <= n

\* the records of sections[i] that supply a non-empty criteria
WithCriteria(i) ==
  {a \in RecordsOf(i) : Truthy(Loaded[a].Section_Criteria__c)}

\* C18: the criteria of a section built by definition 1 is the criteria of
\* the first of its records, in input order, that supplies a non-empty one.
C18_FirstNonEmptyCriteriaWins ==
  (Built /\ ver = 1) =>
    \A i \in 1..Len(sections) :
      WithCriteria(i) # {} =>
        sections[i].sectionCriteria
          = Loaded[FindIndex(WithCriteria(i))].Section_Criteria__c

\* the schema secs has a field for the raw record r, in the section r names
\* or, when r names none, in the section Other
Placed(secs, r) ==
  \E i \in 1..Len(secs) :
    /\ secs[i].name = SectionNameOf(r)
    /\ \E j \in 1..Len(secs[i].fields) :
         secs[i].fields[j].fieldApiName = r.Asset_Attribute__c

\* C19: a load emission without errors never makes the build fail, in either
\* wiredForm definition: the load sets no schemaError and the schema it
\* leaves has every record that has a node, a record without section name
\* in the section Other.
C19_BuildNeverFails ==
  [][(/\ event'.op = "wiredForm"
      /\ event'.emission.hasData
      /\ ~event'.emission.hasErrors)
       => /\ schemaError' \in {schemaError, Undef}
          /\ \A a \in 1..Len(event'.emission.edges) :
               event'.emission.edges[a].hasNode
                 => Placed(sections', event'.emission.edges[a].node)]_vars

(***************************************************************************)
(* The shape of a built schema                                             *)
(***************************************************************************)
\* the handlers that work on a built schema
ShapeOps ==
  {"handleChange", "reEvaluateVisibility", "handleReviewOverwrite"}

\* a schema less the properties named in drop, in its sections and fields
Without(secs, drop) ==
  [i \in 1..Len(secs) |->
    [k \in DOMAIN secs[i] \ drop |->
      IF k = "fields"
      THEN [j \in 1..Len(secs[i].fields) |->
             [l \in DOMAIN secs[i].fields[j] \ drop |-> secs[i].fields[j][l]]]
      ELSE secs[i][k]]]

\* C20 as stated: handleChange, reEvaluateVisibility and
\* handleReviewOverwrite change nothing of the schema but the field values
\* and the isVisible flags of sections and fields.
C20_OnlyValueAndFlagsChange ==
  [][event'.op \in ShapeOps
       => Without(sections', {"value", "isVisible"})
            = Without(sections, {"value", "isVisible"})]_vars

\* C20, amended: handleChange, reEvaluateVisibility and handleReviewOverwrite
\* keep the sequence of sections, each section's name, order and criteria,
\* the sequence of its fields and each field's name, kind flags, order,
\* options and criteria; they change field values, isVisible flags and the
\* renderKey of a section, which a visibility pass sets to name-isVisible.
C20_ShapePreserved ==
  [][event'.op \in ShapeOps
       => /\ Without(sections', {"value", "isVisible", "renderKey"})
               = Without(sections, {"value", "isVisible", "renderKey"})
          /\ event'.op # "handleReviewOverwrite"
               => \A i \in 1..Len(sections') :
                    sections'[i].renderKey
                      = RenderKey(sections'[i], sections'[i].isVisible)]_vars

\* the review panel has overwritten a value of the schema
C20_Witness ==
  /\ event.op = "handleReviewOverwrite"
  /\ event.value.defined
  /\ \E i, k \in 1..Len(sections) :
       /\ \E j \in 1..Len(sections[i].fields) :
            sections[i].fields[j].value = Str(<<"Y", "e", "s">>)
       /\ \E j \in 1..Len(sections[k].fields) :
            sections[k].fields[j].value = Null

(***************************************************************************)
(* The review panel (definition 2)                                         *)
(***************************************************************************)
\* the entries of the payload sections updated that match the field named
\* fieldApiName of the section named name: those of the first payload
\* section of that name
Matches(updated, name, fieldApiName) ==
  LET named == {k \in 1..Len(updated) : updated[k].name = name}
      first == CHOOSE k \in named : \A l \in named : k <= l
  IN IF named = {} THEN {}
     ELSE {m \in 1..Len(updated[first].fields) :
             updated[first].fields[m].fieldApiName = fieldApiName}

\* the value the first matching entry carries
MatchedValue(updated, name, fieldApiName) ==
  LET named == {k \in 1..Len(updated) : updated[k].name = name}
      first == CHOOSE k \in named : \A l \in named : k <= l
      hits == Matches(updated, name, fieldApiName)
  IN updated[first].fields[CHOOSE m \in hits : \A l \in hits : m <= l].value

\* C21: handleReviewOverwrite sets the value of exactly the schema fields
\* the payload matches by fieldApiName (in the payload section of the same
\* name) and leaves the value of every other field, and of every field of a
\* section absent from the payload, as it was.
C21_OverwriteSetsMatchedOnly ==
  [][event'.op = "handleReviewOverwrite"
       => /\ Len(sections') = Len(sections)
          /\ \A i \in 1..Len(sections) :
               /\ Len(sections'[i].fields) = Len(sections[i].fields)
               /\ \A j \in 1..Len(sections[i].fields) :
                    LET f == sections[i].fields[j]
                        updated == event'.value.sections
                    IN sections'[i].fields[j].value =
                         IF Matches(updated, sections[i].name, f.fieldApiName) # {}
                         THEN MatchedValue(updated, sections[i].name, f.fieldApiName)
                         ELSE f.value]_vars

\* a payload has been applied that matches one field of the schema and has
\* nothing for another, which holds a value
C21_Witness ==
  /\ event.op = "handleReviewOverwrite"
  /\ \E i, k \in 1..Len(sections) :
       /\ \E j \in 1..Len(sections[i].fields) :
            /\ Matches(event.value.sections, sections[i].name,
                       sections[i].fields[j].fieldApiName) # {}
            /\ sections[i].fields[j].value = Bool(FALSE)
       /\ \E j \in 1..Len(sections[k].fields) :
            /\ Matches(event.value.sections, sections[k].name,
                       sections[k].fields[j].fieldApiName) = {}
            /\ sections[k].fields[j].value = Str(<<"Y", "e", "s">>)

\* the isVisible flag of a section or field record: absent on the records
\* of definition 2, which has no visibility pass
Flag(r) ==
  IF "isVisible" \in DOMAIN r THEN Bool(r.isVisible) ELSE Undef

\* the flags of a schema, section by section: the flag of the section and
\* the flags of its fields
Flags(secs) ==
  [i \in 1..Len(secs) |->
    <<Flag(secs[i]), [j \in 1..Len(secs[i].fields) |-> Flag(secs[i].fields[j])]>>]

ScenarioRowB(criteria) ==
  Edge(Node(SecB, Num(1), Undef, FldY, Str(<<"c", "h", "e", "c", "k", "b", "o", "x">>),
            Num(1), criteria, Undef))

\* this.sections is the schema [B, A] of the two rows, Y carrying criteria
ScenarioSchema(criteria) ==
  /\ ver = 1
  /\ Len(sections) = 2
  /\ sections[1].name = SecB /\ sections[1].sectionOrder = Num(1)
  /\ sections[2].name = SecA /\ sections[2].sectionOrder = Num(2)
  /\ Len(sections[1].fields) = 1 /\ Len(sections[2].fields) = 1
  /\ sections[1].fields[1].fieldApiName = FldY
  /\ sections[1].fields[1].isCheckbox
  /\ sections[1].fields[1].fieldCriteria = criteria
  /\ sections[2].fields[1].fieldApiName = FldX
  /\ sections[2].fields[1].isNumber
  /\ sections[2].fields[1].fieldCriteria = Str(<<>>)

\* in the schema of the scenario, Y is hidden once the first pass has run
\* with X = null, and visible after the edit X = "10"
ScenarioFlags(criteria) ==
  ScenarioSchema(criteria)
    => /\ (microtasks = <<>> /\ sections[2].fields[1].value = Null)
            => ~sections[1].fields[1].isVisible
       /\ (/\ event.op = "handleChange"
           /\ event.fieldName = FldX
           /\ event.value = Str(<<"1", "0">>))
            => sections[1].fields[1].isVisible

\* a step of the scenario with Y carrying criteria: the load of the two rows (A
\* first) builds [B, A], and every state a step leads to has the flags of
\* the scenario (the initial state has no schema)
Scenario(criteria) ==
  /\ (/\ event'.op = "wiredForm"
      /\ ver = 1
      /\ event'.emission =
           Emission(TRUE, <<TargetEdge, ScenarioRowB(criteria)>>, FALSE, <<>>))
     => ScenarioSchema(criteria)'
  /\ ScenarioFlags(criteria)'

ReviewOps ==
  {"handleSendInfo", "handleReviewOverwrite", "handleReviewKeep"}

\* a step that leaves flag on: the event op has just been handled, or the
\* flag was on and the step handled none of the events of the review
OnOnlyAfter(flag, op) ==
  flag' => \/ event'.op = op
           \/ flag /\ event'.op \notin ReviewOps

Only(secs, sectionName, fieldName) ==
  LET named == {i \in 1..Len(secs) : secs[i].name = Str(sectionName)}
      si == CHOOSE i \in named : \A k \in named : i <= k
      hits == {j \in 1..Len(secs[si].fields) :
                 secs[si].fields[j].fieldApiName = Str(fieldName)}
      fi == CHOOSE j \in hits : \A k \in hits : j <= k
  IN IF named = {} THEN <<>>
     ELSE <<[secs[si] EXCEPT !.fields =
               IF hits = {} THEN <<>> ELSE <<secs[si].fields[fi]>>]>>

\* C26: handleChange(fieldName, v) sets the value of every field named
\* fieldName, in every section, to v and leaves every other value as it
\* was; in the pass that follows, a rule [S].[F] is decided by the value of
\* the first field named F of the section named S and by nothing else.
C26_EditWritesByNameRuleReadsBySection ==
  [][event'.op = "handleChange"
       => /\ Len(sections') = Len(sections)
          /\ \A i \in 1..Len(sections) :
               /\ Len(sections'[i].fields) = Len(sections[i].fields)
               /\ \A j \in 1..Len(sections[i].fields) :
                    sections'[i].fields[j].value =
                      IF sections[i].fields[j].fieldApiName = event'.fieldName
                      THEN event'.value
                      ELSE sections[i].fields[j].value
          /\ \A o \in Owners(sections') :
               RuleOf(o.raw).ok =>
                 (o.isVisible <=>
                    /\ o.parentVisible
                    /\ CriteriaSatisfied(
                         Only(sections', RuleOf(o.raw).sectionName,
                              RuleOf(o.raw).fieldName),
                         o.raw))]_vars

\* an edit has written the fields of one name in two sections and left a
\* field of another name with its value, and a rule that names a section
\* and a field of the schema has been decided
C26_Witness ==
  /\ event.op = "handleChange"
  /\ \E i, k \in 1..Len(sections) :
       /\ i # k
       /\ \E j \in 1..Len(sections[i].fields) :
            /\ sections[i].fields[j].fieldApiName = event.fieldName
            /\ sections[i].fields[j].value = event.value
       /\ \E j \in 1..Len(sections[k].fields) :
            /\ sections[k].fields[j].fieldApiName = event.fieldName
            /\ sections[k].fields[j].value = event.value
       /\ \E j \in 1..Len(sections[k].fields) :
            /\ sections[k].fields[j].fieldApiName # event.fieldName
            /\ sections[k].fields[j].value \notin {Null, event.value}
  /\ \E o \in Owners(sections) :
       /\ RuleOf(o.raw).ok
       /\ TargetExists(sections, RuleOf(o.raw))
       /\ o.isVisible

(***************************************************************************)
(* The review panel: reviewForm.js under definition 2 of the form          *)
(*                                                                         *)
(* reviewForm holds the fields of the c-review-form element: connected (the *)
(* element is in the page), open, and localEditable, which is undefined or *)
(* an object with sections; alias says whether that object is the one the  *)
(* parent's reviewPayload refers to.  The templates are not part of the    *)
(* sources: the form is taken to render the panel while showReview is true, *)
(* with reviewPayload as its reviewJson, and to bind the two events of the *)
(* panel to handleReviewOverwrite and handleReviewKeep.                    *)
(***************************************************************************)
\* JSON.parse(JSON.stringify(v)) of a value: NaN and the infinities come
\* back as null
JsonValue(v) ==
  IF v.t \in {"nan", "inf", "ninf"} THEN Null ELSE v

\* JSON.parse(JSON.stringify(..)) of the sections of a payload (a property
\* that is undefined is dropped, and reads as undefined afterwards)
JsonClone(secs) ==
  [i \in 1..Len(secs) |->
    [secs[i] EXCEPT !.fields =
      [j \in 1..Len(secs[i].fields) |->
        [secs[i].fields[j] EXCEPT !.value = JsonValue(@)]]]]

\* mutant of initializeState: the panel edits the object it was given
initializeState_NoClone(src) ==
  [connected |-> TRUE,
   open |-> TRUE,
   localEditable |->
     IF src = Undef THEN [alias |-> FALSE, sections |-> <<>>]
     ELSE [alias |-> TRUE, sections |-> src.sections]]

\* reviewForm.js lines 23-39 (JSON.stringify cannot throw on a payload:
\* it has no cycle and no BigInt)
initializeState(src) ==
  [connected |-> TRUE,
   open |-> TRUE,
   localEditable |->
     [alias |-> FALSE,
      sections |-> IF src = Undef THEN <<>> ELSE JsonClone(src.sections)]]

\* reviewForm.js lines 10-15, when the form renders the panel
connectedCallback ==
  /\ ver = 2
  /\ showReview
  /\ ~reviewForm.connected
  /\ reviewForm' = IF reviewPayload # Undef THEN initializeState(reviewPayload)
                   ELSE [reviewForm EXCEPT !.connected = TRUE]
  /\ event' = Event("connectedCallback", NoEmission, Undef, Undef)
  /\ UNCHANGED <<ver, sections, loading, schemaError, microtasks, reviewVars, call,
               treeVars>>

\* the form renders without the panel: the element and its fields are gone
disconnectedCallback ==
  /\ ver = 2
  /\ ~showReview
  /\ reviewForm.connected
  /\ reviewForm' = NoReviewForm
  /\ event' = Event("disconnectedCallback", NoEmission, Undef, Undef)
  /\ UNCHANGED <<ver, sections, loading, schemaError, microtasks, reviewVars, call,
               treeVars>>

\* reviewForm.js lines 17-21
openPanel ==
  /\ ver = 2
  /\ reviewForm.connected
  /\ reviewForm' = initializeState(reviewPayload)
  /\ event' = Event("openPanel", NoEmission, Undef, Undef)
  /\ UNCHANGED <<ver, sections, loading, schemaError, microtasks, reviewVars, call,
               treeVars>>

\* reviewForm.js lines 41-43
closePanel ==
  /\ ver = 2
  /\ reviewForm.connected
  /\ reviewForm.open
  /\ reviewForm' = [reviewForm EXCEPT !.open = FALSE]
  /\ event' = Event("closePanel", NoEmission, Undef, Undef)
  /\ UNCHANGED <<ver, sections, loading, schemaError, microtasks, reviewVars, call,
               treeVars>>

\* reviewForm.js lines 57-63: the write into localEditable.sections
EditInPlace(secs, sectionName, fieldName, newValue) ==
  LET si == FindIndex({i \in 1..Len(secs) : secs[i].name = sectionName})
      fi == IF si = 0 THEN 0
            ELSE FindIndex({j \in 1..Len(secs[si].fields) :
                              secs[si].fields[j].fieldApiName = fieldName})
  IN IF si = 0 \/ fi = 0 THEN secs
     ELSE [secs EXCEPT ![si].fields[fi].value = newValue]

\* reviewForm.js lines 46-68: a change of an input of the open panel
handleFieldChange(sectionName, fieldName, newValue) ==
  /\ ver = 2
  /\ reviewForm.connected
  /\ reviewForm.open
  /\ LET edited == EditInPlace(reviewForm.localEditable.sections,
                               sectionName, fieldName, newValue)
     IN /\ reviewForm' = [reviewForm EXCEPT !.localEditable.sections = edited]
        /\ reviewPayload' = IF reviewForm.localEditable.alias
                            THEN [reviewPayload EXCEPT !.sections = edited]
                            ELSE reviewPayload
  /\ event' = Event("handleFieldChange", NoEmission, fieldName, newValue)
  /\ UNCHANGED <<ver, sections, loading, schemaError, microtasks, showReview,
               showKeepEmoji, inputs, call, treeVars>>

\* reviewForm.js lines 70-81: dispatchEvent runs the handler of the form
\* before closePanel
handleOverwrite ==
  /\ reviewForm.connected
  /\ reviewForm.open
  /\ handleReviewOverwrite(
       Detail(TRUE, TRUE, JsonClone(reviewForm.localEditable.sections)))
  /\ reviewForm' = [reviewForm EXCEPT !.open = FALSE]

\* reviewForm.js lines 83-92
handleKeep ==
  /\ reviewForm.connected
  /\ reviewForm.open
  /\ handleReviewKeep
  /\ reviewForm' = [reviewForm EXCEPT !.open = FALSE]

\* the user changes an input of the form: the state of a checkbox flips, a
\* value input takes the text typed
typeInput(key, text) ==
  /\ ver = 2
  /\ microtasks = <<>>
  /\ key \in DOMAIN inputs
  /\ inputs' = IF inputs[key].type = "checkbox"
               THEN [inputs EXCEPT ![key].checked = ~@]
               ELSE [inputs EXCEPT ![key].value = text]
  /\ event' = Event("input", NoEmission, key, text)
  /\ UNCHANGED <<ver, sections, loading, schemaError, microtasks, showReview,
               reviewPayload, showKeepEmoji, call, reviewForm, treeVars>>

\* the load the form is given next to its review panel: a number field
\* and a checkbox in two sections
ReviewEmissions ==
  {em \in Emissions2 :
     /\ Len(em.edges) = 2
     /\ em.edges[1] = TargetEdge
     /\ em.hasData
     /\ ~em.hasErrors}

\* the names the inputs of the open panel carry in data-section-name and
\* data-field-name
PanelInputs ==
  IF reviewForm.localEditable = Undef THEN {}
  ELSE LET secs == reviewForm.localEditable.sections
       IN UNION {{<<secs[i].name, secs[i].fields[j].fieldApiName>> :
                    j \in 1..Len(secs[i].fields)} : i \in 1..Len(secs)}

InitReview ==
  Init /\ ver = 2

NextReview ==
  \/ \E em \in ReviewEmissions : wiredForm2(em)
  \/ \E key \in DOMAIN inputs : typeInput(key, Str(<<"3">>))
  \/ handleSendInfo
  \/ connectedCallback
  \/ disconnectedCallback
  \/ openPanel
  \/ closePanel
  \/ \E at \in PanelInputs : \E newValue \in ReviewValuePool :
       handleFieldChange(at[1], at[2], newValue)
  \/ handleOverwrite
  \/ handleKeep

SpecReview ==
  InitReview /\ [][NextReview]_vars

\* the values of the fields of a schema
Values(secs) ==
  [i \in 1..Len(secs) |-> [j \in 1..Len(secs[i].fields) |-> secs[i].fields[j].value]]

\* C24: the review panel edits a copy of its own.  A handleFieldChange of
\* the panel, and a handleKeep after any number of them, leave the form's
\* reviewPayload and the value of every field of its sections as they
\* were; of the steps of the review (the load of a schema aside), only a
\* reviewoverwrite event changes a value of the form.
C24_PanelEditsPrivateCopy ==
  [][/\ event'.op \in {"handleFieldChange", "handleReviewKeep"}
         => /\ reviewPayload' = reviewPayload
            /\ sections' = sections
     /\ Values(sections') # Values(sections)
         => event'.op \in {"handleReviewOverwrite", "wiredForm"}]_vars

\* the panel has been closed with Keep after an edit: its copy differs from
\* the payload it was opened with
C24_Witness ==
  /\ event.op = "handleReviewKeep"
  /\ reviewForm.connected
  /\ reviewPayload # Undef
  /\ reviewForm.localEditable # Undef
  /\ Len(reviewForm.localEditable.sections) = Len(reviewPayload.sections)
  /\ Values(reviewForm.localEditable.sections) # Values(reviewPayload.sections)
(***************************************************************************)
(* The tree view: fsc_treeView.js                                          *)
(*                                                                         *)
(* treeView holds the fields of the component.  wires holds what the three *)
(* GraphQL wire adapters answer (workOrder, location, asset), fixed for a  *)
(* behaviour, and how many times each has delivered its answer.            *)
(***************************************************************************)
\* how many times a wire adapter delivers its answer
MaxEmits ==
  1

\* how many nodes the tree of the buildTree calls may hold
MaxNodes ==
  4

\* lines 76-84: newNode
TreeNode(id, label, objectType) ==
  [label |-> label, id |-> id, objectType |-> objectType,
   expanded |-> FALSE, hide |-> FALSE, selected |-> FALSE, items |-> <<>>]

\* mutant of insertChild: the parent is not marked expanded
RECURSIVE insertChild_NotExpanded(_, _, _)
insertChild_NotExpanded(nodes, parentId, childNode) ==
  IF nodes = <<>> THEN [found |-> FALSE, nodes |-> nodes]
  ELSE LET node == Head(nodes)
       IN IF node.id = parentId
          THEN [found |-> TRUE,
                nodes |-> <<[node EXCEPT !.items = Append(@, childNode)]>>
                          \o Tail(nodes)]
          ELSE LET inner == insertChild_NotExpanded(node.items, parentId, childNode)
                   rest == insertChild_NotExpanded(Tail(nodes), parentId, childNode)
               IN IF inner.found
                  THEN [found |-> TRUE,
                        nodes |-> <<[node EXCEPT !.items = inner.nodes]>> \o Tail(nodes)]
                  ELSE [found |-> rest.found, nodes |-> <<node>> \o rest.nodes]

\* lines 97-112: found is the value returned, nodes the array after the call
RECURSIVE insertChild(_, _, _)
insertChild(nodes, parentId, childNode) ==
  IF nodes = <<>> THEN [found |-> FALSE, nodes |-> nodes]
  ELSE LET node == Head(nodes)
       IN IF node.id = parentId
          THEN [found |-> TRUE,
                nodes |-> <<[node EXCEPT !.items = Append(@, childNode),
                                         !.expanded = TRUE]>>
                          \o Tail(nodes)]
          ELSE LET inner == insertChild(node.items, parentId, childNode)
                   rest == insertChild(Tail(nodes), parentId, childNode)
               IN IF inner.found
                  THEN [found |-> TRUE,
                        nodes |-> <<[node EXCEPT !.items = inner.nodes]>> \o Tail(nodes)]
                  ELSE [found |-> rest.found, nodes |-> <<node>> \o rest.nodes]

\* lines 75-95
buildTree(treeData, id, parentId, label, objectType) ==
  IF ~Truthy(parentId)
  THEN Append(treeData, TreeNode(id, label, objectType))
  ELSE insertChild(treeData, parentId, TreeNode(id, label, objectType)).nodes

\* lines 192-211: edges.forEach of wiredLocationChildren; tree is
\* this.treeData and ids is locationIds
RECURSIVE AddLocations(_, _, _, _)
AddLocations(edges, locationId, tree, ids) ==
  IF edges = <<>> THEN [treeData |-> tree, locationIds |-> ids]
  ELSE LET id == IF Head(edges).hasNode THEN Head(edges).node.Id ELSE Undef
           label == IF Head(edges).hasNode THEN Head(edges).node.Name ELSE Undef
       IN AddLocations(
            Tail(edges), locationId,
            IF Truthy(id) /\ Truthy(label)
            THEN buildTree(tree, id, locationId, label, Str(<<"L", "o", "c", "a", "t", "i", "o", "n">>))
            ELSE tree,
            IF Truthy(id) THEN Append(ids, id) ELSE ids)

\* line 217: [...new Set(locationIds)]
RECURSIVE Distinct(_)
Distinct(ids) ==
  IF ids = <<>> THEN <<>>
  ELSE LET front == Distinct(SubSeq(ids, 1, Len(ids) - 1))
           last == ids[Len(ids)]
       IN IF \E i \in 1..Len(front) : front[i] = last THEN front
          ELSE Append(front, last)

\* lines 252-267: edges.forEach of wiredAssets
RECURSIVE AddAssets(_, _)
AddAssets(edges, tree) ==
  IF edges = <<>> THEN tree
  ELSE LET has == Head(edges).hasNode
           id == IF has THEN Head(edges).node.Id ELSE Undef
           parentId == IF has THEN Head(edges).node.LocationId ELSE Undef
           label == IF has THEN Head(edges).node.Name ELSE Undef
       IN AddAssets(
            Tail(edges),
            IF Truthy(id) /\ Truthy(parentId) /\ Truthy(label)
            THEN buildTree(tree, id, parentId, label, Str(<<"A", "s", "s", "e", "t">>))
            ELSE tree)

\* line 272 evaluates treeData, an identifier that is bound nowhere in
\* wiredAssets or around it: a ReferenceError, whose message is the
\* engine's
ReferenceErrorMessages ==
  {Str(<<"t", "r", "e", "e", "D", "a", "t", "a", " ", "i", "s", " ", "n", "o", "t", " ", "d", "e", "f", "i", "n", "e", "d">>),
   Str(<<"C", "a", "n", "'", "t", " ", "f", "i", "n", "d", " ", "v", "a", "r", "i", "a", "b", "l", "e", ":", " ", "t", "r", "e", "e", "D", "a", "t", "a">>)}

\* what a wire adapter emits before it has an answer
Provisional ==
  Emission(FALSE, <<>>, FALSE, <<>>)

\* every node of a tree, at every depth
RECURSIVE Nodes(_)
Nodes(tree) ==
  IF tree = <<>> THEN {}
  ELSE {Head(tree)} \cup Nodes(Head(tree).items) \cup Nodes(Tail(tree))

\* the number of nodes of a tree
RECURSIVE NodeCount(_)
NodeCount(tree) ==
  IF tree = <<>> THEN 0
  ELSE 1 + NodeCount(Head(tree).items) + NodeCount(Tail(tree))

InitTree ==
  LET l0 == Str(<<"L", "0">>)
      l1 == Str(<<"L", "1">>)
      a1 == Str(<<"A", "1">>)
      site == Str(<<"S", "i", "t", "e">>)
      failed == Emission(FALSE, <<>>, TRUE, <<ErrorMessage(1)>>)
      workOrders ==
        {failed,
         Emission(TRUE, <<>>, FALSE, <<>>),
         Emission(TRUE, <<Edge([LocationId |-> Null, LocationName |-> Null])>>, FALSE, <<>>),
         Emission(TRUE, <<Edge([LocationId |-> l0, LocationName |-> site])>>, FALSE, <<>>),
         Emission(TRUE, <<Edge([LocationId |-> l0, LocationName |-> Null])>>, FALSE, <<>>)}
      locations ==
        {failed,
         Emission(TRUE, <<>>, FALSE, <<>>),
         Emission(TRUE, <<Edge([Id |-> l1, Name |-> site])>>, FALSE, <<>>),
         Emission(TRUE, <<Edge([Id |-> l1, Name |-> Null])>>, FALSE, <<>>),
         Emission(TRUE, <<Edge([Id |-> l1, Name |-> site]),
                          Edge([Id |-> l1, Name |-> site])>>, FALSE, <<>>)}
      assets ==
        {failed, Emission(TRUE, <<>>, FALSE, <<>>)}
        \cup {Emission(TRUE, <<Edge([Id |-> a1, Name |-> site, LocationId |-> at])>>,
                       FALSE, <<>>) : at \in {l0, l1, a1, Null}}
        \cup {Emission(TRUE, <<Edge([Id |-> a1, Name |-> Undef, LocationId |-> l0])>>,
                       FALSE, <<>>)}
  IN /\ ver = 1
     /\ sections = <<>>
     /\ loading = TRUE
     /\ schemaError = Undef
     /\ microtasks = <<>>
     /\ event = Event("constructor", NoEmission, Undef, Undef)
     /\ showReview = FALSE
     /\ reviewPayload = Undef
     /\ showKeepEmoji = FALSE
     /\ inputs = <<>>
     /\ call = NoCall
     /\ reviewForm = NoReviewForm
     /\ treeView = NewTreeView
     /\ wires \in [workOrder : workOrders, location : locations, asset : assets,
                   emitted : {NoWires.emitted}]

\* lines 127-165.  edges[0].node and the optional chains cannot throw on an
\* edge object.
wiredWorkOrder(em) ==
  /\ IF ~em.hasData /\ ~em.hasErrors
     THEN UNCHANGED <<treeView, wires>>
     ELSE /\ wires.emitted.workOrder < MaxEmits
          /\ wires' = [wires EXCEPT !.emitted.workOrder = @ + 1]
          /\ IF em.hasErrors /\ Len(em.errors) # 0
             THEN treeView' = [treeView EXCEPT !.error = ErrorText(em),
                                               !.loading = FALSE]
             ELSE LET edges == EdgesOf(em)
                      hasNode == Len(edges) # 0 /\ edges[1].hasNode
                      locationId ==
                        JsOr(IF hasNode THEN edges[1].node.LocationId ELSE Undef, Null)
                      locationName ==
                        JsOr(IF hasNode THEN edges[1].node.LocationName ELSE Undef, Null)
                      label == IF Truthy(locationName) THEN locationName
                               ELSE Str(<<"L", "o", "c", "a", "t", "i", "o", "n", " ", "n", "o", "t", " ", "f", "o", "u", "n", "d">>)
                  IN IF Truthy(locationId)
                     THEN treeView' =
                            [treeView EXCEPT
                               !.locationId = locationId,
                               !.locationName = label,
                               !.treeData = buildTree(treeView.treeData, locationId,
                                                      Null, label, Str(<<"L", "o", "c", "a", "t", "i", "o", "n">>))]
                     ELSE treeView' =
                            [treeView EXCEPT
                               !.locationId = locationId,
                               !.error = Str(<<"W", "o", "r", "k", "O", "r", "d", "e", "r", " ", "d", "o", "e", "s", " ", "n", "o", "t", " ", "h", "a", "v", "e", " ", "a", " ", "L", "o", "c", "a", "t", "i", "o", "n", " ", "a", "s", "s", "i", "g", "n", "e", "d">>),
                               !.loading = FALSE]
  /\ UNCHANGED <<ver, sections, loading, schemaError, microtasks, event, reviewVars,
               call, reviewForm>>

\* lines 168-226.  The adapter has variables, and an answer, once
\* locationId is set (lines 309-314).
wiredLocationChildren(em) ==
  /\ IF ~Truthy(treeView.locationId) \/ (~em.hasData /\ ~em.hasErrors)
     THEN UNCHANGED <<treeView, wires>>
     ELSE /\ wires.emitted.location < MaxEmits
          /\ wires' = [wires EXCEPT !.emitted.location = @ + 1]
          /\ IF em.hasErrors /\ Len(em.errors) # 0
             THEN treeView' = [treeView EXCEPT !.error = ErrorText(em),
                                               !.loading = FALSE]
             ELSE LET added == AddLocations(EdgesOf(em), treeView.locationId,
                                            treeView.treeData,
                                            <<treeView.locationId>>)
                  IN treeView' =
                       [treeView EXCEPT
                          !.treeData = added.treeData,
                          !.assetLocationIds = Distinct(added.locationIds)]
  /\ UNCHANGED <<ver, sections, loading, schemaError, microtasks, event, reviewVars,
               call, reviewForm>>

\* lines 229-279.  After the loop, line 272 raises the ReferenceError and
\* the catch of lines 274-277 stores its message.
wiredAssets(em) ==
  /\ IF Len(treeView.assetLocationIds) = 0 \/ (~em.hasData /\ ~em.hasErrors)
     THEN UNCHANGED <<treeView, wires>>
     ELSE /\ wires.emitted.asset < MaxEmits
          /\ wires' = [wires EXCEPT !.emitted.asset = @ + 1]
          /\ IF em.hasErrors /\ Len(em.errors) # 0
             THEN treeView' = [treeView EXCEPT !.error = ErrorText(em),
                                               !.loading = FALSE]
             ELSE \E message \in ReferenceErrorMessages :
                    treeView' =
                      [treeView EXCEPT
                         !.treeData = AddAssets(EdgesOf(em), treeView.treeData),
                         !.error = message,
                         !.loading = FALSE]
  /\ UNCHANGED <<ver, sections, loading, schemaError, microtasks, event, reviewVars,
               call, reviewForm>>

\* lines 283-286: a click on a node of the tree
handleNodeClick(node) ==
  /\ treeView' = [treeView EXCEPT !.selectedNode = node, !.isModalOpen = TRUE]
  /\ treeView' # treeView
  /\ UNCHANGED <<ver, sections, loading, schemaError, microtasks, event, reviewVars,
               call, reviewForm, wires>>

\* lines 288-291
handleCloseModal ==
  /\ treeView.isModalOpen
  /\ treeView' = [treeView EXCEPT !.isModalOpen = FALSE, !.selectedNode = Undef]
  /\ UNCHANGED <<ver, sections, loading, schemaError, microtasks, event, reviewVars,
               call, reviewForm, wires>>

NextTree ==
  \/ \E em \in {Provisional, wires.workOrder} : wiredWorkOrder(em)
  \/ \E em \in {Provisional, wires.location} : wiredLocationChildren(em)
  \/ \E em \in {Provisional, wires.asset} : wiredAssets(em)
  \/ \E node \in Nodes(treeView.treeData) : handleNodeClick(node)
  \/ handleCloseModal

\* A wire adapter that has variables delivers its answer: the work order
\* adapter from the start, the location adapter once locationId is set, the
\* asset adapter once assetLocationIds holds an id.
SpecTree ==
  /\ InitTree
  /\ [][NextTree]_vars
  /\ WF_vars(wiredWorkOrder(wires.workOrder))
  /\ WF_vars(wiredLocationChildren(wires.location))
  /\ WF_vars(wiredAssets(wires.asset))

\* the work order has a location and every lookup returns data without
\* errors
AllLookupsSucceed ==
  /\ wires.workOrder.hasData /\ ~wires.workOrder.hasErrors
  /\ Len(wires.workOrder.edges) # 0
  /\ Truthy(wires.workOrder.edges[1].node.LocationId)
  /\ wires.location.hasData /\ ~wires.location.hasErrors
  /\ wires.asset.hasData /\ ~wires.asset.hasErrors

\* the load stops at a lookup that returns errors, or at a work order
\* without location
SomeLookupFails ==
  \/ wires.workOrder.hasErrors
  \/ Len(wires.workOrder.edges) = 0
  \/ ~Truthy(wires.workOrder.edges[1].node.LocationId)
  \/ wires.location.hasErrors
  \/ wires.asset.hasErrors

\* C28: in the three-step load, when the three lookups return data without
\* errors and the work order has a location, the component eventually has
\* loading = false with error unset; when a lookup returns errors or the
\* work order has no location, it eventually has loading = false with error
\* set.
C28_LoadSettles ==
  /\ AllLookupsSucceed ~> (~treeView.loading /\ treeView.error = Undef)
  /\ SomeLookupFails ~> (~treeView.loading /\ treeView.error # Undef)

(***************************************************************************)
(* buildTree on its own                                                    *)
(***************************************************************************)
\* this.buildTree(this.treeData, id, parentId, label, 'Location')
buildTreeCall(id, parentId, label) ==
  /\ NodeCount(treeView.treeData) < MaxNodes
  /\ treeView' = [treeView EXCEPT
                    !.treeData = buildTree(@, id, parentId, label, Str(<<"L", "o", "c", "a", "t", "i", "o", "n">>))]
  /\ call' = [fn |-> "buildTree", id |-> id, parentId |-> parentId,
              label |-> label, before |-> treeView.treeData]
  /\ UNCHANGED <<ver, sections, loading, schemaError, microtasks, event, reviewVars,
               reviewForm, wires>>

NextBuildTree ==
  \E id \in {Str(<<"a">>), Str(<<"b">>), Str(<<"c">>)} :
    \E parentId \in {Undef, Null, Str(<<>>), Str(<<"a">>), Str(<<"b">>), Str(<<"z">>)} :
      buildTreeCall(id, parentId, Str(<<"S", "i", "t", "e">>))

\* a tree view as constructed, its tree empty
InitBuildTree ==
  Init /\ ver = 1

SpecBuildTree ==
  InitBuildTree /\ [][NextBuildTree]_vars

\* the ids of the nodes of a tree
Ids(tree) ==
  {n.id : n \in Nodes(tree)}

\* C27: after any sequence of buildTree calls, every node at every depth is
\* expanded exactly when its items are not empty; a call whose parentId is
\* not the id of a node of the tree inserts nothing, and a call without
\* parentId appends the new node as a root.
C27_ExpandedIffItems ==
  [][call'.fn = "buildTree"
       => /\ \A n \in Nodes(treeView'.treeData) : n.expanded <=> n.items # <<>>
          /\ (Truthy(call'.parentId) /\ call'.parentId \notin Ids(treeView.treeData))
               => treeView'.treeData = treeView.treeData
          /\ ~Truthy(call'.parentId)
               => treeView'.treeData =
                    Append(treeView.treeData,
                           [label |-> call'.label, id |-> call'.id,
                            objectType |-> Str(<<"L", "o", "c", "a", "t", "i", "o", "n">>),
                            expanded |-> FALSE, hide |-> FALSE, selected |-> FALSE,
                            items |-> <<>>])]_vars

\* a call with a parentId the tree does not hold has left a tree of three
\* levels as it was
C27_Witness ==
  /\ call.fn = "buildTree"
  /\ Truthy(call.parentId)
  /\ call.parentId \notin Ids(call.before)
  /\ treeView.treeData = call.before
  /\ \E root \in 1..Len(treeView.treeData) :
       \E child \in 1..Len(treeView.treeData[root].items) :
         /\ treeView.treeData[root].expanded
         /\ treeView.treeData[root].items[child].expanded
         /\ \E leaf \in 1..Len(treeView.treeData[root].items[child].items) :
              ~treeView.treeData[root].items[child].items[leaf].expanded
====
